---------------------------- MODULE Spec2Model ----------------------------
(***************************************************************************)
(* A model of the pgvictoria wire-protocol engine and configuration store. *)
(*                                                                         *)
(*   transport   write_message / ssl_write_message,                        *)
(*               read_message / ssl_read_message          (message.c)      *)
(*   executor    pgvictoria_query_execute, pgvictoria_has_message,         *)
(*               create_D_tuple, create_C_tuple           (message.c)      *)
(*   reload      pgvictoria_reload_configuration,                          *)
(*               transfer_configuration                   (configuration.c)*)
(*                                                                         *)
(* Each subsystem has its own specification over the shared variables:     *)
(* WriteSpec, ReadSpec, Spec (the query executor) and ReloadSpec.          *)
(***************************************************************************)
EXTENDS Integers, Sequences, FiniteSets, TLC

(***************************************************************************)
(* Program constants                                                       *)
(***************************************************************************)
DEFAULT_BUFFER_SIZE == 131072

NUMBER_OF_SERVERS == 64

NUMBER_OF_USERS == 64

MAX_NUMBER_OF_COLUMNS == 8

\* pgvictoria_read_block_message hands read_message a timeout of 5 seconds.
BLOCK_TIMEOUT == 5

\* pgvictoria_init_main_configuration: the defaults of a fresh snapshot.
DEFAULT_AUTHENTICATION_TIMEOUT == 5

DEFAULT_BACKLOG == 16

HUGEPAGE_OFF == 0

HUGEPAGE_TRY == 1

HUGEPAGE_ON == 2

UPDATE_PROCESS_TITLE_NEVER == 0

UPDATE_PROCESS_TITLE_VERBOSE == 3

\* The status codes of the transport.
MESSAGE_STATUS_ZERO == "ZERO"
MESSAGE_STATUS_OK == "OK"
MESSAGE_STATUS_ERROR == "ERROR"

(***************************************************************************)
(* Bounds of the model                                                     *)
(***************************************************************************)
\* Syscalls (write, SSL_write, read, SSL_read) one call may issue.
MaxAttempts == 4

\* The short message length used beside the lengths around DEFAULT_BUFFER_SIZE.
MaxSmallLen == 3

\* Frames the backend sends before the ReadyForQuery frame (or the close).
MaxBodyFrames == 3

\* How far behind the end of the accumulator a length read out of bounds
\* may send a scan (the words of GarbageWords).
GarbageBack == 24

\* Seconds of the model's clock.
MaxTime == 11

\* Edits made to the configuration files between reloads.
MaxEdits == 2

\* Bytes of a string argument of a message constructor.
MaxArgLen == 2

\* Columns of a DataRow.
MaxRowColumns == 2

\* The users[] slots that start inside the shared-memory segment of a
\* struct main_configuration: users[] begins 30016 bytes into the struct and a
\* slot takes 1152 bytes; the struct takes 107328 bytes, 27 pages of 4 KiB.
SegmentUserSlots == 70

\* ENC_BUF_SIZE of aes.c (1 MiB), scaled to the files of the model.
ENC_BUF_SIZE == 2

ENCRYPTION_NONE == 0
ENCRYPTION_AES_256_CBC == 1
ENCRYPTION_AES_192_CBC == 2
ENCRYPTION_AES_128_CBC == 3
ENCRYPTION_AES_256_CTR == 4
ENCRYPTION_AES_192_CTR == 5
ENCRYPTION_AES_128_CTR == 6

MIN(a, b) == IF a < b THEN a ELSE b

(***************************************************************************)
(* State                                                                   *)
(***************************************************************************)
VARIABLES
    \* --- pgvictoria_write_message: the running call
    w_ssl,          \* TRUE: ssl_write_message, FALSE: write_message
    w_len,          \* msg->length
    w_offset,       \* offset
    w_totalbytes,   \* totalbytes
    w_remaining,    \* remaining
    w_keep_write,   \* keep_write
    w_status,       \* "run" while in the loop, then the status returned
    w_attempts,     \* syscalls issued by this call
    w_accepted,     \* bytes the transport has accepted (history)
    w_inorder,      \* every syscall so far started at byte w_accepted (history)
    w_lastReq,      \* bytes requested by the last syscall (history)
    w_lastFail,     \* the failure of the last syscall, "none" if it succeeded
    w_retried,      \* a failed syscall of this call was retried (history)
    errno,          \* the thread's errno: "0", "EAGAIN" or "OTHER"
    \* --- read_message / ssl_read_message: the running call
    r_ssl,          \* TRUE: ssl_read_message, FALSE: read_message
    r_block,        \* block
    r_timeout,      \* timeout (seconds; <= 0: none)
    r_keep_read,    \* keep_read
    r_status,       \* "run" while in the loop, then the status returned
    r_attempts,     \* syscalls issued by this call
    r_kind,         \* m->kind of the message returned (a byte; -1: none)
    r_length,       \* m->length of the message returned
    r_entered,      \* the clock when the call was entered
    r_last,         \* the last read / SSL_read: ret, errno or SSL code, first
                    \* byte, ERR_clear_error was called after it
    so_rcvtimeo,    \* the socket's SO_RCVTIMEO (seconds; 0: none)
    now,            \* the clock (seconds)
    \* --- pgvictoria_query_execute: the running call
    q_pc,           \* "call", "write", "read", "done"; "stuck": it never returns
    q_ssl,          \* ssl != NULL
    q_ret,          \* the value returned (-1: none yet)
    q_response,     \* *response
    q_body,         \* the frames the backend sends before ReadyForQuery
    q_closed,       \* the backend closes instead of sending ReadyForQuery
    q_wire,         \* the bytes the backend sends
    q_size,         \* data_size: the accumulator holds q_wire[1..q_size]
    q_writes,       \* calls of pgvictoria_write_message (history)
    q_wstatus,      \* what pgvictoria_write_message returned ("none": not yet)
    q_everRead,     \* a read syscall was issued (history)
    q_zFound,       \* pgvictoria_has_message('Z') has returned true
    q_readAfterZ,   \* a read syscall was issued after that (history)
    q_nonOkAfterData, \* a read returned ZERO or ERROR after an append (history)
    \* --- configuration
    config,         \* the live configuration (shmem)
    f_main,         \* the main configuration file: [exists, stray, conf]
    f_users,        \* the users file: [exists, master_key, malformed, users]
    edits,          \* edits made to the files so far
    rl_ret,         \* what the last pgvictoria_reload_configuration returned (-1: none)
    rl_restart,     \* *restart after it
    rl_before,      \* the live configuration when it was called (history)
    rl_snapshot,    \* the snapshot it built (history)
    rl_failed,      \* the step of it that failed, "none" if none did (history)
    rl_transferred, \* it ran transfer_configuration (history)
    rl_logger,      \* what the last reload did to the logger, in order
    rl_users_ret,   \* what its pgvictoria_read_users_configuration returned (-1: none)
    rl_slots,       \* the indexes of servers[] its pgvictoria_read_main_configuration
                    \* stored to (history)
    \* message constructors and create_D_tuple
    m_pc,           \* "call" / "row" before, "done" after, "idle" when unused
    m_fn,           \* the function called
    m_args,         \* its arguments
    m_msg,          \* the message a constructor returned
    m_tuple,        \* the cells of the tuple create_D_tuple returned
    m_found,        \* what pgvictoria_has_message returned ("none": not called)
    m_response,     \* what the classification of a reply ended with
    m_data,         \* what pgvictoria_query_response_get_data returned
    \* --- pgvictoria_encrypt_file / pgvictoria_decrypt_file
    a_pc,           \* "idle", "call", "encrypt_file", "fread", "return", "done"
    a_args,         \* from, to, enc (1 encrypt, 0 decrypt)
    a_fault,        \* the step of encrypt_file that fails in this call
    f_files,        \* the files of the directory: exists, data
    a_pos,          \* bytes of the source read so far
    a_held,         \* the block the cipher context holds back
    a_rc,           \* what encrypt_file returned (-1: not yet)
    a_ret,          \* what the public function returned (-1: not yet)
    a_buf,          \* pgvictoria_encrypt_buffer / pgvictoria_decrypt_buffer: the
                    \* master key, the arguments and what the two calls gave
    \* --- main
    p_pc,           \* the step main is at; "idle" when unused, "exited" at the end
    p_env,          \* what this run meets: the failing call, the main
                    \* configuration file, the PID files found at the start
    p_config,       \* config: null, running, pidfile, unix_socket_dir, host
    p_files,        \* the files at the paths a PID file can have
    p_steps,        \* the steps of startup run so far, in order (history)
    p_pid_file_created, \* the local of main
    p_exit,         \* the exit code (-1: none)
    p_signal,       \* the signal that killed the process ("none": none)
    s_pc,           \* where the call of as_bytes is ("idle", "call", "done")
    s_in,           \* its arguments: the digits and the suffix of str, default_bytes
    s_out           \* what it ended with: the return value and *bytes

wvars == <<w_ssl, w_len, w_offset, w_totalbytes, w_remaining, w_keep_write,
           w_status, w_attempts, w_accepted, w_inorder, w_lastReq, w_lastFail,
           w_retried>>

rvars == <<r_ssl, r_block, r_timeout, r_keep_read, r_status, r_attempts,
           r_kind, r_length, r_entered, r_last, so_rcvtimeo, now>>

qvars == <<q_pc, q_ssl, q_ret, q_response, q_body, q_closed, q_wire, q_size,
           q_writes, q_wstatus, q_everRead, q_zFound, q_readAfterZ,
           q_nonOkAfterData>>

cvars == <<config, f_main, f_users, edits, rl_ret, rl_restart, rl_before,
           rl_snapshot, rl_failed, rl_transferred, rl_logger, rl_users_ret,
                   rl_slots>>

mvars == <<m_pc, m_fn, m_args, m_msg, m_tuple, m_found, m_response, m_data>>

avars == <<a_pc, a_args, a_fault, f_files, a_pos, a_held, a_rc, a_ret, a_buf>>

pvars == <<p_pc, p_env, p_config, p_files, p_steps, p_pid_file_created,
           p_exit, p_signal>>

svars == <<s_pc, s_in, s_out>>

vars == <<wvars, errno, rvars, qvars, cvars, mvars, avars, pvars, svars>>

(***************************************************************************)
(* Transport: write                                                        *)
(***************************************************************************)
ErrnoValues == {"0", "EAGAIN", "OTHER"}

\* SSL_get_error for a non-positive SSL_write / SSL_read result.
SSL_WANT == {"WANT_READ", "WANT_WRITE", "WANT_CONNECT", "WANT_ACCEPT",
             "WANT_X509_LOOKUP", "WANT_ASYNC", "WANT_ASYNC_JOB",
             "WANT_CLIENT_HELLO_CB"}

SSL_ERRORS == SSL_WANT \cup {"ZERO_RETURN", "SYSCALL", "SSL", "UNLISTED"}

\* The lengths of the messages written: short, and around the chunk size (every
\* constructor of message.c builds a message of at least one byte).
WriteLengths == {1, MaxSmallLen, DEFAULT_BUFFER_SIZE, DEFAULT_BUFFER_SIZE + 1,
                 2 * DEFAULT_BUFFER_SIZE + 1}

\* What a write of `size` bytes may accept: nothing, one byte, half, all but one, all.
Accepts(size) == {n \in {0, 1, size \div 2, size - 1, size} : n >= 0 /\ n <= size}

\* The state of a call that has just been entered (write_message 1367-1370,
\* ssl_write_message 1530-1533; keep_write starts false in both).
write_enter(len) ==
    [offset |-> 0, totalbytes |-> 0, remaining |-> len, keep_write |-> FALSE,
     status |-> "run"]

\* write_size = MIN(remaining, DEFAULT_BUFFER_SIZE)
write_size(remaining) == MIN(remaining, DEFAULT_BUFFER_SIZE)

\* write_message with a partial write that does not advance the offset.
write_message_offset_kept(len, s, numbytes, e) ==
    LET total == IF numbytes >= 0 THEN s.totalbytes + numbytes ELSE s.totalbytes
    IN  IF total = len
        THEN [s EXCEPT !.totalbytes = total, !.keep_write = FALSE,
                       !.status = MESSAGE_STATUS_OK]
        ELSE IF numbytes # -1
        THEN [s EXCEPT !.totalbytes = total,
                       !.remaining = s.remaining - numbytes,
                       !.keep_write = TRUE]
        ELSE IF e = "EAGAIN"
        THEN [s EXCEPT !.keep_write = TRUE]
        ELSE [s EXCEPT !.keep_write = FALSE, !.status = MESSAGE_STATUS_ERROR]

\* One pass of write_message's do-while: s is the call's state, numbytes the
\* result of write(), e the errno it left.
write_message(len, s, numbytes, e) ==
    LET total == IF numbytes >= 0 THEN s.totalbytes + numbytes ELSE s.totalbytes
    IN  IF total = len
        THEN [s EXCEPT !.totalbytes = total, !.keep_write = FALSE,
                       !.status = MESSAGE_STATUS_OK]
        ELSE IF numbytes # -1
        THEN [s EXCEPT !.totalbytes = total,
                       !.offset = s.offset + numbytes,
                       !.remaining = s.remaining - numbytes,
                       !.keep_write = TRUE]
        ELSE IF e = "EAGAIN"
        THEN [s EXCEPT !.keep_write = TRUE]
        ELSE [s EXCEPT !.keep_write = FALSE, !.status = MESSAGE_STATUS_ERROR]

\* The switch of ssl_write_message over SSL_get_error: the value keep_write has
\* after it. A code the switch does not list leaves keep_write as it was.
ssl_write_retry(err, keep_write) ==
    IF err \in SSL_WANT \cup {"ZERO_RETURN"} THEN TRUE
    ELSE IF err \in {"SYSCALL", "SSL"} THEN FALSE
    ELSE keep_write

\* One pass of ssl_write_message's do-while: numbytes is the result of SSL_write,
\* err the SSL_get_error code when numbytes <= 0.
ssl_write_message(len, s, numbytes, err) ==
    IF numbytes = len
    THEN [s EXCEPT !.status = MESSAGE_STATUS_OK]
    ELSE IF numbytes > 0
    THEN LET total == s.totalbytes + numbytes
         IN  [s EXCEPT !.offset = s.offset + numbytes,
                       !.totalbytes = total,
                       !.remaining = s.remaining - numbytes,
                       !.keep_write = (total # len),
                       !.status = IF total = len THEN MESSAGE_STATUS_OK ELSE "run"]
    ELSE LET keep == ssl_write_retry(err, s.keep_write)
         IN  [s EXCEPT !.keep_write = keep,
                       !.status = IF keep THEN "run" ELSE MESSAGE_STATUS_ERROR]

WState == [offset |-> w_offset, totalbytes |-> w_totalbytes,
           remaining |-> w_remaining, keep_write |-> w_keep_write,
           status |-> w_status]

\* The write machine takes the state s after one syscall that requested req
\* bytes, of which the transport accepted n, and that failed with `fail`.
WriteCommit(s, req, n, fail) ==
    /\ w_offset' = s.offset
    /\ w_totalbytes' = s.totalbytes
    /\ w_remaining' = s.remaining
    /\ w_keep_write' = s.keep_write
    /\ w_status' = s.status
    /\ w_attempts' = w_attempts + 1
    /\ w_accepted' = w_accepted + n
    /\ w_inorder' = (w_inorder /\ w_offset = w_accepted)
    /\ w_lastReq' = req
    /\ w_lastFail' = fail
    /\ w_retried' = (w_retried \/ (fail # "none" /\ s.status = "run"))
    /\ UNCHANGED <<w_ssl, w_len>>

\* pgvictoria_write_message is entered: ssl == NULL chooses the variant.
WriteEnter(ssl, len) ==
    /\ w_ssl' = ssl
    /\ w_len' = len
    /\ w_offset' = write_enter(len).offset
    /\ w_totalbytes' = write_enter(len).totalbytes
    /\ w_remaining' = write_enter(len).remaining
    /\ w_keep_write' = write_enter(len).keep_write
    /\ w_status' = write_enter(len).status
    /\ w_attempts' = 0
    /\ w_accepted' = 0
    /\ w_inorder' = TRUE
    /\ w_lastReq' = 0
    /\ w_lastFail' = "none"
    /\ w_retried' = FALSE

\* write(socket, msg->data + offset, write_size) accepts n bytes. A partial
\* write clears errno (line 1400).
PlainWriteOk ==
    /\ ~w_ssl /\ w_status = "run" /\ w_attempts < MaxAttempts
    /\ \E n \in Accepts(write_size(w_remaining)) :
          WriteCommit(write_message(w_len, WState, n, errno),
                      write_size(w_remaining), n, "none")
    /\ errno' = IF w_status' = "run" THEN "0" ELSE errno

\* write() returns -1 and sets errno; the code clears it (line 1418).
PlainWriteFail ==
    /\ ~w_ssl /\ w_status = "run" /\ w_attempts < MaxAttempts
    /\ \E e \in {"EAGAIN", "OTHER"} :
          WriteCommit(write_message(w_len, WState, -1, e),
                      write_size(w_remaining), 0, e)
    /\ errno' = "0"

\* SSL_write(ssl, msg->data + offset, remaining) accepts n > 0 bytes. A partial
\* write clears errno (line 1556).
SslWriteOk ==
    /\ w_ssl /\ w_status = "run" /\ w_attempts < MaxAttempts
    /\ \E n \in Accepts(w_remaining) \ {0} :
          WriteCommit(ssl_write_message(w_len, WState, n, "none"),
                      w_remaining, n, "none")
    /\ errno' = IF w_status' = "run" THEN "0" ELSE errno

\* SSL_write returns <= 0 and SSL_get_error names the failure; every listed
\* case clears errno.
SslWriteFail ==
    /\ w_ssl /\ w_status = "run" /\ w_attempts < MaxAttempts
    /\ \E err \in SSL_ERRORS :
          /\ WriteCommit(ssl_write_message(w_len, WState, 0, err),
                         w_remaining, 0, err)
          /\ errno' = IF err = "UNLISTED" THEN errno ELSE "0"

WriteStep == PlainWriteOk \/ PlainWriteFail \/ SslWriteOk \/ SslWriteFail

(***************************************************************************)
(* Transport: read                                                         *)
(***************************************************************************)
\* A pass that takes a read of 0 bytes for a failure.
read_message_zero_is_error(block, numbytes, e) ==
    IF numbytes > 0
    THEN [status |-> MESSAGE_STATUS_OK, keep_read |-> FALSE, errno |-> e]
    ELSE IF e = "EAGAIN" /\ block
         THEN [status |-> "run", keep_read |-> TRUE, errno |-> "0"]
         ELSE [status |-> MESSAGE_STATUS_ERROR, keep_read |-> FALSE, errno |-> e]

\* One pass of read_message's do-while: numbytes is the result of read(), e the
\* value of errno after it (read() leaves errno alone unless it fails).
read_message(block, numbytes, e) ==
    IF numbytes > 0
    THEN [status |-> MESSAGE_STATUS_OK, keep_read |-> FALSE, errno |-> e]
    ELSE IF numbytes = 0
    THEN IF e = "EAGAIN" /\ block
         THEN [status |-> "run", keep_read |-> TRUE, errno |-> "0"]
         ELSE [status |-> MESSAGE_STATUS_ZERO, keep_read |-> FALSE, errno |-> e]
    ELSE IF e = "EAGAIN" /\ block
         THEN [status |-> "run", keep_read |-> TRUE, errno |-> "0"]
         ELSE [status |-> MESSAGE_STATUS_ERROR, keep_read |-> FALSE, errno |-> e]

\* SO_RCVTIMEO when read_message is entered (lines 1275-1280).
read_message_enter_rcvtimeo(timeout, current) ==
    IF timeout > 0 THEN timeout ELSE current

\* A read_message that clears SO_RCVTIMEO on the OK path only.
read_message_rcvtimeo_ok_only(timeout, status, current) ==
    IF status = MESSAGE_STATUS_OK /\ timeout > 0 THEN 0 ELSE current

\* SO_RCVTIMEO after a pass that ended with `status` (lines 1294-1299,
\* 1314-1319, 1341-1348).
read_message_rcvtimeo(timeout, status, current) ==
    IF status # "run" /\ timeout > 0 THEN 0 ELSE current

\* A pass that ends the call with ZERO on every SSL_ERROR_ZERO_RETURN.
ssl_read_message_zero_return_ends(timeout, keep_read, numbytes, err, elapsed) ==
    IF numbytes > 0
    THEN [status |-> MESSAGE_STATUS_OK, keep_read |-> keep_read, sleep |-> FALSE,
          cleared |-> FALSE]
    ELSE IF err = "ZERO_RETURN"
    THEN [status |-> MESSAGE_STATUS_ZERO, keep_read |-> keep_read, sleep |-> FALSE,
          cleared |-> FALSE]
    ELSE IF err \in SSL_WANT
    THEN [status |-> "run", keep_read |-> TRUE, sleep |-> FALSE, cleared |-> TRUE]
    ELSE [status |-> MESSAGE_STATUS_ERROR, keep_read |-> FALSE, sleep |-> FALSE,
          cleared |-> TRUE]

\* One pass of ssl_read_message's do-while: numbytes is the result of SSL_read,
\* err the SSL_get_error code when numbytes <= 0, elapsed the seconds since
\* start_time. A code the switch does not list leaves keep_read as it was.
ssl_read_message(timeout, keep_read, numbytes, err, elapsed) ==
    IF numbytes > 0
    THEN [status |-> MESSAGE_STATUS_OK, keep_read |-> keep_read, sleep |-> FALSE,
          cleared |-> FALSE]
    ELSE IF err = "ZERO_RETURN"
    THEN IF timeout > 0 /\ elapsed >= timeout
         THEN [status |-> MESSAGE_STATUS_ZERO, keep_read |-> keep_read,
               sleep |-> FALSE, cleared |-> FALSE]
         ELSE [status |-> "run", keep_read |-> TRUE, sleep |-> (timeout > 0),
               cleared |-> TRUE]
    ELSE IF err \in SSL_WANT
    THEN [status |-> "run", keep_read |-> TRUE, sleep |-> FALSE, cleared |-> TRUE]
    ELSE IF err \in {"SYSCALL", "SSL"}
    THEN [status |-> MESSAGE_STATUS_ERROR, keep_read |-> FALSE, sleep |-> FALSE,
          cleared |-> TRUE]
    ELSE [status |-> IF keep_read THEN "run" ELSE MESSAGE_STATUS_ERROR,
          keep_read |-> keep_read, sleep |-> FALSE, cleared |-> TRUE]

\* What a read syscall may take when no data is there: a blocking socket with a
\* receive timeout waits it out, a non-blocking one returns at once.
NoDataDelays == {0, so_rcvtimeo}

\* The timeouts callers pass (none when <= 0); pgvictoria_read_block_message
\* passes BLOCK_TIMEOUT.
ReadTimeouts == {-1, 0, 1, BLOCK_TIMEOUT}

\* A first byte of a message read (any tag).
SomeKinds == {69, 90}

\* The sizes a read may return.
SomeSizes == {1, MaxSmallLen, DEFAULT_BUFFER_SIZE}

ReadCommit(status, keep, kind, length) ==
    /\ r_status' = status
    /\ r_keep_read' = keep
    /\ r_kind' = kind
    /\ r_length' = length
    /\ r_attempts' = r_attempts + 1
    /\ so_rcvtimeo' = IF r_ssl THEN so_rcvtimeo
                      ELSE read_message_rcvtimeo(r_timeout, status, so_rcvtimeo)
    /\ UNCHANGED <<r_ssl, r_block, r_timeout, r_entered>>

\* read(socket, m->data, DEFAULT_BUFFER_SIZE) returns n > 0 bytes.
PlainReadData ==
    /\ ~r_ssl /\ r_status = "run" /\ r_attempts < MaxAttempts
    /\ \E n \in SomeSizes, k \in SomeKinds :
          LET res == read_message(r_block, n, errno)
          IN  /\ ReadCommit(res.status, res.keep_read, k, n)
              /\ r_last' = [ret |-> n, code |-> "none", first |-> k,
                            cleared |-> FALSE]
              /\ errno' = res.errno
    /\ UNCHANGED now

\* read() returns 0 (the peer has closed): errno keeps its earlier value.
PlainReadZero ==
    /\ ~r_ssl /\ r_status = "run" /\ r_attempts < MaxAttempts
    /\ LET res == read_message(r_block, 0, errno)
       IN  /\ ReadCommit(res.status, res.keep_read, r_kind, r_length)
           /\ r_last' = [ret |-> 0, code |-> "none", first |-> -1,
                         cleared |-> FALSE]
           /\ errno' = res.errno
    /\ UNCHANGED now

\* read() returns -1: with EAGAIN when no data came (after the receive timeout
\* on a blocking socket), with another errno on a failure.
PlainReadFail ==
    /\ ~r_ssl /\ r_status = "run" /\ r_attempts < MaxAttempts
    /\ \E e \in {"EAGAIN", "OTHER"}, d \in NoDataDelays :
          LET res == read_message(r_block, -1, e)
          IN  /\ e = "OTHER" => d = 0
              /\ now + d <= MaxTime
              /\ now' = now + d
              /\ ReadCommit(res.status, res.keep_read, r_kind, r_length)
              /\ r_last' = [ret |-> -1, code |-> e, first |-> -1,
                            cleared |-> FALSE]
              /\ errno' = res.errno

\* SSL_read(ssl, m->data, DEFAULT_BUFFER_SIZE) returns n > 0 bytes.
SslReadData ==
    /\ r_ssl /\ r_status = "run" /\ r_attempts < MaxAttempts
    /\ \E n \in SomeSizes, k \in SomeKinds :
          LET res == ssl_read_message(r_timeout, r_keep_read, n, "none",
                                      now - r_entered)
          IN  /\ ReadCommit(res.status, res.keep_read, k, n)
              /\ r_last' = [ret |-> n, code |-> "none", first |-> k,
                            cleared |-> res.cleared]
    /\ UNCHANGED <<now, errno>>

\* SSL_read returns <= 0 after d seconds (nothing bounds the time it takes) and
\* SSL_get_error names the failure.
SslReadFail ==
    /\ r_ssl /\ r_status = "run" /\ r_attempts < MaxAttempts
    /\ \E err \in SSL_ERRORS, d \in {0, 1} :
          LET res == ssl_read_message(r_timeout, r_keep_read, 0, err,
                                      now + d - r_entered)
          IN  /\ now + d <= MaxTime
              /\ now' = now + d
              /\ ReadCommit(res.status, res.keep_read, r_kind, r_length)
              /\ r_last' = [ret |-> 0, code |-> err, first |-> -1,
                            cleared |-> res.cleared]
              /\ errno' = IF err = "SYSCALL" THEN "0" ELSE errno

ReadStep == PlainReadData \/ PlainReadZero \/ PlainReadFail
            \/ SslReadData \/ SslReadFail

\* No call of the transport is running.
WriteIdle ==
    /\ w_ssl = FALSE /\ w_len = 0 /\ w_offset = 0 /\ w_totalbytes = 0
    /\ w_remaining = 0 /\ w_keep_write = FALSE /\ w_status = "idle"
    /\ w_attempts = 0 /\ w_accepted = 0 /\ w_inorder = TRUE /\ w_lastReq = 0
    /\ w_lastFail = "none" /\ w_retried = FALSE

ReadIdle ==
    /\ r_ssl = FALSE /\ r_block = FALSE /\ r_timeout = 0 /\ r_keep_read = FALSE
    /\ r_status = "idle" /\ r_attempts = 0 /\ r_kind = -1 /\ r_length = 0
    /\ r_entered = 0 /\ so_rcvtimeo = 0 /\ now = 0
    /\ r_last = [ret |-> 0, code |-> "none", first |-> -1, cleared |-> FALSE]

(***************************************************************************)
(* Wire format and codec                                                   *)
(***************************************************************************)
\* The four bytes of a big-endian int32 (two's complement).
I32(v) ==
    LET c == IF v < 0 THEN -v - 1 ELSE v
        b == <<c \div 16777216, (c \div 65536) % 256, (c \div 256) % 256, c % 256>>
    IN  IF v < 0 THEN [i \in 1..4 |-> 255 - b[i]] ELSE b

\* One frame: tag byte, int32 length counting itself and the payload, payload.
Frame(tag, payload) == <<tag>> \o I32(Len(payload) + 4) \o payload

\* The frames a backend sends in this model: ErrorResponse (M "x"),
\* RowDescription of one column named "E" (18 bytes of zero field description),
\* DataRow with the value "x", DataRow with NULL, CommandComplete "SET",
\* ReadyForQuery.
FrameBytes(kind) ==
    CASE kind = "E"  -> Frame(69, <<77, 120, 0, 0>>)
      [] kind = "T"  -> Frame(84, <<0, 1, 69, 0>> \o [i \in 1..18 |-> 0])
      [] kind = "Dx" -> Frame(68, <<0, 1>> \o I32(1) \o <<120>>)
      [] kind = "Dn" -> Frame(68, <<0, 1>> \o I32(-1))
      [] kind = "C"  -> Frame(67, <<83, 69, 84, 0>>)
      [] kind = "Z"  -> Frame(90, <<73>>)

BodyKinds == {"E", "T", "Dx", "Dn", "C"}

RECURSIVE WireBytes(_)
WireBytes(kinds) ==
    IF kinds = <<>> THEN <<>>
    ELSE FrameBytes(Head(kinds)) \o WireBytes(Tail(kinds))

\* The replies of the backend: up to MaxBodyFrames frames, then ReadyForQuery
\* or nothing more (the backend has closed the connection).
Bodies == UNION {[1..k -> BodyKinds] : k \in 0..MaxBodyFrames}

\* The accumulator as the scans see it: `size` bytes of data, and after them
\* whatever the heap holds there, the bytes of `garbage` (repeated).
Memory(data, size, garbage) == [data |-> data, size |-> size, garbage |-> garbage]

\* The words a scan may find past the end of the accumulator: zero, a large
\* positive one, and the small negative ones that send it back into the data.
GarbageWords ==
    {I32(0), I32(2130706432)} \cup {I32(-v) : v \in 1..GarbageBack}

\* The byte at data + i.
pgvictoria_read_byte(m, i) ==
    IF i < m.size THEN m.data[i + 1] ELSE m.garbage[((i - m.size) % 4) + 1]

pgvictoria_read_int16(m, i) ==
    LET v == pgvictoria_read_byte(m, i) * 256 + pgvictoria_read_byte(m, i + 1)
    IN  IF v >= 32768 THEN v - 65536 ELSE v

pgvictoria_read_int32(m, i) ==
    LET b1 == pgvictoria_read_byte(m, i)
        b2 == pgvictoria_read_byte(m, i + 1)
        b3 == pgvictoria_read_byte(m, i + 2)
        b4 == pgvictoria_read_byte(m, i + 3)
    IN  IF b1 >= 128
        THEN -((255 - b1) * 16777216 + (255 - b2) * 65536 + (255 - b3) * 256
               + (255 - b4)) - 1
        ELSE b1 * 16777216 + b2 * 65536 + b3 * 256 + b4

\* The bytes of the NUL-terminated string at data + i (without the NUL); a
\* string that runs to the end of the garbage word stops there.
RECURSIVE pgvictoria_read_string(_, _)
pgvictoria_read_string(m, i) ==
    IF i >= m.size + 4 \/ pgvictoria_read_byte(m, i) = 0 THEN <<>>
    ELSE <<pgvictoria_read_byte(m, i)>> \o pgvictoria_read_string(m, i + 1)

\* offset += v on a size_t: a sum below zero wraps to a huge offset. Every
\* offset at or past the end is kept as m.size (the loops test offset < size).
offset_add(m, offset, v) ==
    IF v < -offset THEN m.size
    ELSE IF v >= m.size - offset THEN m.size
    ELSE offset + v

\* The copy of 1 + m_length bytes made when a frame is extracted: a negative
\* size, or one that runs past the garbage word, takes the process down.
extract_copy_ok(m, offset, m_length) ==
    m_length >= -1 /\ m_length <= m.size + 3 - offset

\* pgvictoria_extract_message_offset: the frame at offset (kind, place, length)
\* and the next offset.
pgvictoria_extract_message_offset(m, offset) ==
    LET m_length == pgvictoria_read_int32(m, offset + 1)
    IN  [ok |-> extract_copy_ok(m, offset, m_length),
         msg |-> [kind |-> pgvictoria_read_byte(m, offset), at |-> offset,
                  length |-> 1 + m_length],
         next |-> offset_add(m, offset, 1 + m_length)]

\* A variant of the scan that adds the length without the tag byte.
RECURSIVE has_message_from_without_tag(_, _, _, _)
has_message_from_without_tag(type, m, offset, fuel) ==
    IF offset >= m.size THEN "false"
    ELSE IF pgvictoria_read_byte(m, offset) = type
    THEN IF type = 69 /\ ~pgvictoria_extract_message_offset(m, offset).ok
         THEN "crash" ELSE "true"
    ELSE IF fuel = 0 THEN "hang"
    ELSE has_message_from_without_tag(type, m,
             offset_add(m, offset, pgvictoria_read_int32(m, offset + 1)),
             fuel - 1)

\* pgvictoria_has_message from `offset` on: "true", "false", "hang" when the
\* scan cycles (fuel counts the steps left; more steps than bytes is a cycle),
\* "crash" when logging the ErrorResponse found copies wild bytes.
RECURSIVE has_message_from(_, _, _, _)
has_message_from(type, m, offset, fuel) ==
    IF offset >= m.size THEN "false"
    ELSE IF pgvictoria_read_byte(m, offset) = type
    THEN IF type = 69 /\ ~pgvictoria_extract_message_offset(m, offset).ok
         THEN "crash" ELSE "true"
    ELSE IF fuel = 0 THEN "hang"
    ELSE has_message_from(type, m,
             offset_add(m, offset + 1, pgvictoria_read_int32(m, offset + 1)),
             fuel - 1)

pgvictoria_has_message(type, m) == has_message_from(type, m, 0, m.size)

\* pgvictoria_extract_message_from_data: the first frame of the type, found by
\* the same walk.
RECURSIVE extract_message_from(_, _, _, _)
extract_message_from(type, m, offset, fuel) ==
    IF offset >= m.size THEN [ret |-> "1", msg |-> [kind |-> 0, at |-> 0, length |-> 0]]
    ELSE IF pgvictoria_read_byte(m, offset) = type
    THEN LET x == pgvictoria_extract_message_offset(m, offset)
         IN  [ret |-> IF x.ok THEN "0" ELSE "crash", msg |-> x.msg]
    ELSE IF fuel = 0 THEN [ret |-> "hang", msg |-> [kind |-> 0, at |-> 0, length |-> 0]]
    ELSE extract_message_from(type, m,
             offset_add(m, offset + 1, pgvictoria_read_int32(m, offset + 1)),
             fuel - 1)

pgvictoria_extract_message_from_data(type, m) ==
    extract_message_from(type, m, 0, m.size)

(***************************************************************************)
(* Query responses                                                         *)
(***************************************************************************)
\* A cell of a tuple: NULL, or the bytes of its C string.
NullCell == [null |-> TRUE, bytes |-> <<>>]

Cell(bytes) == [null |-> FALSE, bytes |-> bytes]

\* The bytes msg->data + from .. + from + length - 1.
MessageBytes(m, msg, from, length) ==
    [j \in 1..length |-> pgvictoria_read_byte(m, msg.at + from + j - 1)]

\* create_D_tuple: the cells of columns i .. number_of_columns - 1, the cursor
\* being at msg->data + offset.
RECURSIVE D_cells(_, _, _, _, _)
D_cells(number_of_columns, m, msg, i, offset) ==
    IF i >= number_of_columns THEN <<>>
    ELSE LET length == pgvictoria_read_int32(m, msg.at + offset)
         IN  IF length > 0
             THEN <<Cell(MessageBytes(m, msg, offset + 4, length))>>
                  \o D_cells(number_of_columns, m, msg, i + 1, offset + 4 + length)
             ELSE <<NullCell>>
                  \o D_cells(number_of_columns, m, msg, i + 1, offset + 4)

create_D_tuple(number_of_columns, m, msg) ==
    D_cells(number_of_columns, m, msg, 0, 7)

create_C_tuple(m, msg) ==
    LET length == pgvictoria_read_int32(m, msg.at + 1) - 5
    IN  IF length > 0 THEN <<Cell(MessageBytes(m, msg, 5, length))>>
        ELSE <<NullCell>>

get_number_of_columns(m, msg) ==
    IF msg.kind = 84 THEN pgvictoria_read_int16(m, msg.at + 5) ELSE 0

\* get_column_name: the offset of the name of column `index` in the message.
RECURSIVE column_name_offset(_, _, _)
column_name_offset(m, msg, index) ==
    IF index = 0 THEN 7
    ELSE LET o == column_name_offset(m, msg, index - 1)
         IN  o + Len(pgvictoria_read_string(m, msg.at + o)) + 1 + 18

get_column_name(m, msg, index) ==
    IF msg.kind = 84 /\ index < pgvictoria_read_int16(m, msg.at + 5)
    THEN [ret |-> 0,
          name |-> pgvictoria_read_string(m, msg.at + column_name_offset(m, msg, index))]
    ELSE [ret |-> 1, name |-> <<>>]

\* A query_response as the caller sees it through *response: ptr is "UNSET"
\* (the caller's variable before the call), "NULL" or "r" (the response built).
Response(ptr, cols, names, tuples, complete) ==
    [ptr |-> ptr, number_of_columns |-> cols, names |-> names,
     tuples |-> tuples, is_command_complete |-> complete]

\* A tuple is linked to the tail of the list (lines 951-960).
tuple_append_head(tuples, t) == <<t>> \o tuples

tuple_append(tuples, t) == Append(tuples, t)

\* The walk over the accumulator that builds the tuples (lines 941-965).
RECURSIVE query_rows(_, _, _, _, _)
query_rows(cols, m, offset, tuples, fuel) ==
    IF offset >= m.size THEN [out |-> "ok", tuples |-> tuples]
    ELSE IF fuel = 0 THEN [out |-> "hang", tuples |-> tuples]
    ELSE LET x == pgvictoria_extract_message_offset(m, offset)
         IN  IF ~x.ok THEN [out |-> "crash", tuples |-> tuples]
             ELSE query_rows(cols, m, x.next,
                      IF x.msg.kind = 68
                      THEN tuple_append(tuples, create_D_tuple(cols, m, x.msg))
                      ELSE tuples,
                      fuel - 1)

\* What the call ends with: [pc, ret, response].
query_return_r(r) == [pc |-> "done", ret |-> 1, response |-> r]

\* The error label: return 1, *response left as line 854 set it.
query_error(r) ==
    [pc |-> "done", ret |-> 1, response |-> Response("NULL", 0, <<>>, <<>>, FALSE)]

\* The call does not return (a scan that cycles, a wild copy).
query_stuck == [pc |-> "stuck", ret |-> -1,
                response |-> Response("NULL", 0, <<>>, <<>>, FALSE)]

\* Lines 910-994: the classification of the accumulated reply.
query_classify(m) ==
    LET r0 == Response("r", 0, <<>>, <<>>, FALSE)
        e == pgvictoria_has_message(69, m)
        t == pgvictoria_has_message(84, m)
        c == pgvictoria_has_message(67, m)
    IN  IF e \in {"hang", "crash"} THEN query_stuck
        ELSE IF e = "true" THEN query_error(r0)
        ELSE IF t = "hang" THEN query_stuck
        ELSE IF t = "true"
        THEN LET x == pgvictoria_extract_message_from_data(84, m)
                 cols == get_number_of_columns(m, x.msg)
                 rows == query_rows(cols, m, 0, <<>>, m.size)
             IN  IF x.ret \in {"hang", "crash"} THEN query_stuck
                 ELSE IF x.ret = "1" THEN query_error(r0)
                 ELSE IF \E i \in 0..(cols - 1) : get_column_name(m, x.msg, i).ret = 1
                 THEN query_error(Response("r", cols, <<>>, <<>>, FALSE))
                 ELSE IF rows.out # "ok" THEN query_stuck
                 ELSE [pc |-> "done", ret |-> 0,
                       response |->
                           Response("r", cols,
                                    [i \in 1..cols |-> get_column_name(m, x.msg, i - 1).name],
                                    rows.tuples, FALSE)]
        ELSE IF c = "hang" THEN query_stuck
        ELSE IF c = "true"
        THEN LET x == pgvictoria_extract_message_from_data(67, m)
             IN  IF x.ret \in {"hang", "crash"} THEN query_stuck
                 ELSE IF x.ret = "1" THEN query_error(r0)
                 ELSE [pc |-> "done", ret |-> 0,
                       response |-> Response("r", 1, <<>>,
                                             <<create_C_tuple(m, x.msg)>>, TRUE)]
        ELSE query_error(r0)

\* Lines 856-860: where the call goes when pgvictoria_write_message returns.
query_after_write(status) ==
    IF status # MESSAGE_STATUS_OK THEN "error" ELSE "read"

\* Lines 874-890: where the loop goes after a read that returned `status`;
\* found is the result of pgvictoria_has_message('Z') after the append.
query_loop_never_stops(status, found) ==
    IF status = MESSAGE_STATUS_OK
    THEN IF found = "hang" THEN "stuck" ELSE "read"
    ELSE IF status = MESSAGE_STATUS_ZERO THEN "read"
    ELSE "error"

query_loop(status, found) ==
    IF status = MESSAGE_STATUS_OK
    THEN IF found = "true" THEN "classify"
         ELSE IF found = "hang" THEN "stuck"
         ELSE "read"
    ELSE IF status = MESSAGE_STATUS_ZERO THEN "read"
    ELSE "error"

(***************************************************************************)
(* pgvictoria_query_execute                                                *)
(***************************************************************************)
\* How many bytes of the header of its last frame an accumulator of `size`
\* bytes holds, when it ends inside that header (0: it does not). The scans
\* then read the frame's length from past the end.
RECURSIVE header_bytes(_, _, _)
header_bytes(data, size, offset) ==
    IF offset >= size THEN 0
    ELSE IF offset + 5 > size THEN size - offset
    ELSE header_bytes(data, size,
             offset + 1 + pgvictoria_read_int32(Memory(data, size, I32(0)), offset + 1))

\* What lies past the end matters only then; and when the first byte of the
\* length is there (zero in every frame of this model), the word read is a
\* positive one whatever follows.
GarbageFor(data, size) ==
    LET h == header_bytes(data, size, 0)
    IN  IF h = 0 THEN {I32(0)}
        ELSE IF h = 1 THEN GarbageWords
        ELSE {I32(0), I32(2130706432)}

\* The sizes a read may return when `left` bytes of the reply are to come.
ReadSizes(left) == {1, left}

\* pgvictoria_write_message has returned: its locals are gone.
WriteLeave ==
    /\ w_ssl' = FALSE /\ w_len' = 0 /\ w_offset' = 0 /\ w_totalbytes' = 0
    /\ w_remaining' = 0 /\ w_keep_write' = FALSE /\ w_status' = "idle"
    /\ w_attempts' = 0 /\ w_accepted' = 0 /\ w_inorder' = TRUE /\ w_lastReq' = 0
    /\ w_lastFail' = "none" /\ w_retried' = FALSE

\* Lines 851-856: *response = NULL, then the request is written.
QueryEnter ==
    /\ q_pc = "call"
    /\ q_pc' = "write"
    /\ q_response' = Response("NULL", 0, <<>>, <<>>, FALSE)
    /\ q_writes' = q_writes + 1
    /\ WriteEnter(q_ssl, MaxSmallLen)
    /\ UNCHANGED <<q_ssl, q_ret, q_body, q_closed, q_wire, q_size, q_wstatus,
                   q_everRead, q_zFound, q_readAfterZ, q_nonOkAfterData>>
    /\ UNCHANGED <<errno, rvars>>

\* A syscall of the write.
QueryWrite ==
    /\ q_pc = "write"
    /\ WriteStep
    /\ UNCHANGED <<qvars, rvars>>

\* Lines 856-860: the write has returned. When it went through, the backend
\* answers with the reply it chooses; a backend that closes does so early.
QueryWriteReturn ==
    /\ q_pc = "write"
    /\ w_status \in {MESSAGE_STATUS_OK, MESSAGE_STATUS_ERROR}
    /\ q_wstatus' = w_status
    /\ WriteLeave
    /\ IF query_after_write(w_status) = "read"
       THEN /\ q_pc' = "read"
            /\ \E body \in Bodies, closed \in BOOLEAN :
                  /\ closed => Len(body) <= 1
                  /\ q_body' = body
                  /\ q_closed' = closed
                  /\ q_wire' = WireBytes(body)
                               \o (IF closed THEN <<>> ELSE FrameBytes("Z"))
            /\ UNCHANGED <<q_ret, q_response>>
       ELSE /\ q_pc' = query_error(q_response).pc
            /\ q_ret' = query_error(q_response).ret
            /\ q_response' = query_error(q_response).response
            /\ UNCHANGED <<q_body, q_closed, q_wire>>
    /\ UNCHANGED <<q_ssl, q_size, q_writes, q_everRead, q_zFound, q_readAfterZ,
                   q_nonOkAfterData>>
    /\ UNCHANGED <<errno, r_ssl, r_block, r_timeout, r_keep_read, r_status,
                   r_attempts, r_kind, r_length, r_entered, r_last, so_rcvtimeo,
                   now>>

\* One pass of pgvictoria_read_block_message inside the loop of lines 869-894
\* ended with `status` ("run": the pass is retried inside the read), having
\* read the reply up to `size`; g is what the heap holds past the accumulator.
QueryAfterRead(status, keep, size, g) ==
    \E found \in {IF status = MESSAGE_STATUS_OK
                  THEN pgvictoria_has_message(90, Memory(q_wire, size, g))
                  ELSE "false"} :
      \E next \in {IF status = "run" THEN "read" ELSE query_loop(status, found)} :
        \E res \in {IF next = "classify"
                    THEN query_classify(Memory(q_wire, size, g))
                    ELSE IF next = "error" THEN query_error(q_response)
                    ELSE IF next = "stuck" THEN query_stuck
                    ELSE [pc |-> "read", ret |-> q_ret, response |-> q_response]} :
          /\ q_pc' = res.pc
          /\ q_ret' = res.ret
          /\ q_response' = res.response
          /\ q_size' = size
          /\ q_everRead' = TRUE
          /\ q_zFound' = (q_zFound \/ found = "true")
          /\ q_readAfterZ' = (q_readAfterZ \/ q_zFound)
          /\ q_nonOkAfterData' =
                (q_nonOkAfterData
                   \/ (q_size > 0
                       /\ status \in {MESSAGE_STATUS_ZERO, MESSAGE_STATUS_ERROR}))
          /\ r_keep_read' = IF status = "run" THEN keep ELSE FALSE
          /\ UNCHANGED <<q_ssl, q_body, q_closed, q_wire, q_writes, q_wstatus>>
          /\ UNCHANGED <<wvars, r_ssl, r_block, r_timeout, r_status, r_attempts,
                         r_kind, r_length, r_entered, r_last, so_rcvtimeo, now>>

\* read / SSL_read returns k > 0 bytes of the reply, split anywhere.
QueryReadData ==
    /\ q_pc = "read"
    /\ q_size < Len(q_wire)
    /\ \E k \in ReadSizes(Len(q_wire) - q_size) :
          \E g \in GarbageFor(q_wire, q_size + k) :
             IF q_ssl
             THEN LET res == ssl_read_message(0, r_keep_read, k, "none", 0)
                  IN  /\ QueryAfterRead(res.status, res.keep_read, q_size + k, g)
                      /\ UNCHANGED errno
             ELSE LET res == read_message(TRUE, k, errno)
                  IN  /\ QueryAfterRead(res.status, res.keep_read, q_size + k, g)
                      /\ errno' = res.errno

\* The backend has closed and every byte it sent was read: read returns 0,
\* SSL_read fails with SSL_ERROR_ZERO_RETURN.
QueryReadEof ==
    /\ q_pc = "read"
    /\ q_closed /\ q_size = Len(q_wire)
    /\ IF q_ssl
       THEN LET res == ssl_read_message(0, r_keep_read, 0, "ZERO_RETURN", 0)
            IN  /\ QueryAfterRead(res.status, res.keep_read, q_size, I32(0))
                /\ UNCHANGED errno
       ELSE LET res == read_message(TRUE, 0, errno)
            IN  /\ QueryAfterRead(res.status, res.keep_read, q_size, I32(0))
                /\ errno' = res.errno

\* read returns -1 (EAGAIN when the receive timeout expired with no data),
\* SSL_read fails with a code other than SSL_ERROR_ZERO_RETURN.
QueryReadFail ==
    /\ q_pc = "read"
    /\ IF q_ssl
       THEN \E err \in SSL_ERRORS \ {"ZERO_RETURN"} :
               LET res == ssl_read_message(0, r_keep_read, 0, err, 0)
               IN  /\ QueryAfterRead(res.status, res.keep_read, q_size, I32(0))
                   /\ errno' = IF err = "SYSCALL" THEN "0" ELSE errno
       ELSE \E e \in {"EAGAIN", "OTHER"} :
               LET res == read_message(TRUE, -1, e)
               IN  /\ QueryAfterRead(res.status, res.keep_read, q_size, I32(0))
                   /\ errno' = res.errno

QueryIdle ==
    /\ q_pc = "idle" /\ q_ssl = FALSE /\ q_ret = -1
    /\ q_response = Response("UNSET", 0, <<>>, <<>>, FALSE)
    /\ q_body = <<>> /\ q_closed = FALSE /\ q_wire = <<>> /\ q_size = 0
    /\ q_writes = 0 /\ q_wstatus = "none" /\ q_everRead = FALSE
    /\ q_zFound = FALSE /\ q_readAfterZ = FALSE /\ q_nonOkAfterData = FALSE

(***************************************************************************)
(* Message constructors                                                    *)
(***************************************************************************)
\* allocate_message: the envelope and `size` zeroed bytes of payload; `stores`
\* lists the offset and length of every store made into data since.
allocate_message(size) ==
    [kind |-> 0, length |-> size, data |-> [i \in 1..size |-> 0], stores |-> <<>>]

\* The stores of the codec at m->data + offset.
pgvictoria_write_byte(offset, b) == [offset |-> offset, bytes |-> <<b>>]

pgvictoria_write_int32(offset, i) == [offset |-> offset, bytes |-> I32(i)]

pgvictoria_write_int64(offset, i) == [offset |-> offset, bytes |-> I32(0) \o I32(i)]

\* The bytes of the string and its NUL.
pgvictoria_write_string(offset, s) == [offset |-> offset, bytes |-> s \o <<0>>]

memcpy(offset, src, n) == [offset |-> offset, bytes |-> SubSeq(src, 1, n)]

\* The message after the stores ws, made in order. A byte stored at or past
\* m->length is not part of the message; its store is still listed.
RECURSIVE message_stores(_, _)
message_stores(m, ws) ==
    IF ws = <<>> THEN m
    ELSE LET w == Head(ws)
         IN  message_stores(
                 [m EXCEPT
                    !.data = [i \in 1..m.length |->
                                 IF i - 1 >= w.offset /\ i - 1 < w.offset + Len(w.bytes)
                                 THEN w.bytes[i - w.offset] ELSE @[i]],
                    !.stores = Append(@, [offset |-> w.offset, length |-> Len(w.bytes)])],
                 Tail(ws))

\* snprintf("%d") of a non-negative int.
RECURSIVE Decimal(_)
Decimal(n) == IF n < 10 THEN <<48 + n>> ELSE Decimal(n \div 10) \o <<48 + (n % 10)>>

pgvictoria_create_auth_password_response(password) ==
    LET size == 6 + Len(password)
    IN  message_stores([allocate_message(size) EXCEPT !.kind = 112],
            <<pgvictoria_write_byte(0, 112),
              pgvictoria_write_int32(1, size - 1),
              pgvictoria_write_string(5, password)>>)

pgvictoria_create_auth_md5_response(md5) ==
    LET size == 1 + 4 + Len(md5) + 1
    IN  message_stores([allocate_message(size) EXCEPT !.kind = 112],
            <<pgvictoria_write_byte(0, 112),
              pgvictoria_write_int32(1, size - 1),
              pgvictoria_write_string(5, md5)>>)

\* "SCRAM-SHA-256", " n,,n=,r=", the nonce.
pgvictoria_create_auth_scram256_response(nounce) ==
    LET size == 1 + 4 + 13 + 4 + 9 + Len(nounce)
    IN  message_stores([allocate_message(size) EXCEPT !.kind = 112],
            <<pgvictoria_write_byte(0, 112),
              pgvictoria_write_int32(1, size - 1),
              pgvictoria_write_string(5, <<83, 67, 82, 65, 77, 45, 83, 72, 65, 45, 50, 53, 54>>),
              pgvictoria_write_string(22, <<32, 110, 44, 44, 110, 61, 44, 114, 61>>),
              pgvictoria_write_string(31, nounce)>>)

\* "r=", cn, sn, ",s=", salt, ",i=4096".
pgvictoria_create_auth_scram256_continue(cn, sn, salt) ==
    LET size == 1 + 4 + 4 + 2 + Len(cn) + Len(sn) + 3 + Len(salt) + 7
    IN  message_stores([allocate_message(size) EXCEPT !.kind = 82],
            <<pgvictoria_write_byte(0, 82),
              pgvictoria_write_int32(1, size - 1),
              pgvictoria_write_int32(5, 11),
              pgvictoria_write_string(9, <<114, 61>>),
              pgvictoria_write_string(11, cn),
              pgvictoria_write_string(11 + Len(cn), sn),
              pgvictoria_write_string(11 + Len(cn) + Len(sn), <<44, 115, 61>>),
              pgvictoria_write_string(11 + Len(cn) + Len(sn) + 3, salt),
              pgvictoria_write_string(11 + Len(cn) + Len(sn) + 3 + Len(salt), <<44, 105, 61, 52, 48, 57, 54>>)>>)

\* wp, ",p=", p.
pgvictoria_create_auth_scram256_continue_response(wp, p) ==
    LET size == 1 + 4 + Len(wp) + 3 + Len(p)
    IN  message_stores([allocate_message(size) EXCEPT !.kind = 112],
            <<pgvictoria_write_byte(0, 112),
              pgvictoria_write_int32(1, size - 1),
              pgvictoria_write_string(5, wp),
              pgvictoria_write_string(5 + Len(wp), <<44, 112, 61>>),
              pgvictoria_write_string(5 + Len(wp) + 3, p)>>)

\* "v=", ss.
pgvictoria_create_auth_scram256_final(ss) ==
    LET size == 1 + 4 + 4 + 2 + Len(ss)
    IN  message_stores([allocate_message(size) EXCEPT !.kind = 82],
            <<pgvictoria_write_byte(0, 82),
              pgvictoria_write_int32(1, size - 1),
              pgvictoria_write_int32(5, 12),
              pgvictoria_write_string(9, <<118, 61>>),
              pgvictoria_write_string(11, ss)>>)

pgvictoria_create_ssl_message ==
    message_stores([allocate_message(8) EXCEPT !.kind = 0],
        <<pgvictoria_write_int32(0, 8),
          pgvictoria_write_int32(4, 80877103)>>)

\* "user", "database", "application_name", "pgvictoria", "replication", "1".
pgvictoria_create_startup_message(username, database, replication) ==
    LET us == Len(username)
        ds == Len(database)
        size == 4 + 4 + 4 + 1 + us + 1 + 8 + 1 + ds + 1 + 17 + 9 + 1
                + (IF replication THEN 14 ELSE 0)
    IN  message_stores([allocate_message(size) EXCEPT !.kind = 0],
            <<pgvictoria_write_int32(0, size),
              pgvictoria_write_int32(4, 196608),
              pgvictoria_write_string(8, <<117, 115, 101, 114>>),
              pgvictoria_write_string(13, username),
              pgvictoria_write_string(13 + us + 1, <<100, 97, 116, 97, 98, 97, 115, 101>>),
              pgvictoria_write_string(13 + us + 1 + 9, database),
              pgvictoria_write_string(13 + us + 1 + 9 + ds + 1, <<97, 112, 112, 108, 105, 99, 97, 116, 105, 111, 110, 95, 110, 97, 109, 101>>),
              pgvictoria_write_string(13 + us + 1 + 9 + ds + 1 + 17, <<112, 103, 118, 105, 99, 116, 111, 114, 105, 97>>)>>
            \o (IF replication
                THEN <<pgvictoria_write_string(13 + us + 1 + 9 + ds + 1 + 17 + 9,
                                               <<114, 101, 112, 108, 105, 99, 97, 116, 105, 111, 110>>),
                       pgvictoria_write_string(13 + us + 1 + 9 + ds + 1 + 17 + 9 + 12,
                                               <<49>>)>>
                ELSE <<>>))

\* "IDENTIFY_SYSTEM;".
pgvictoria_create_identify_system_message ==
    LET size == 1 + 4 + 17
    IN  message_stores([allocate_message(size) EXCEPT !.kind = 81],
            <<pgvictoria_write_byte(0, 81),
              pgvictoria_write_int32(1, size - 1),
              pgvictoria_write_string(5, <<73, 68, 69, 78, 84, 73, 70, 89, 95, 83, 89, 83, 84, 69, 77, 59>>)>>)

\* "TIMELINE_HISTORY ", the timeline in decimal, ";".
pgvictoria_create_timeline_history_message(timeline) ==
    LET tl == Decimal(timeline)
        size == 1 + 4 + 17 + Len(tl) + 1 + 1
    IN  message_stores([allocate_message(size) EXCEPT !.kind = 81],
            <<pgvictoria_write_byte(0, 81),
              pgvictoria_write_int32(1, size - 1),
              pgvictoria_write_string(5, <<84, 73, 77, 69, 76, 73, 78, 69, 95, 72, 73, 83, 84, 79, 82, 89, 32>>),
              memcpy(5 + 17, tl, Len(tl)),
              pgvictoria_write_string(5 + 17 + Len(tl), <<59>>)>>)

\* "READ_REPLICATION_SLOT ", the slot, ";".
pgvictoria_create_read_replication_slot_message(slot) ==
    LET size == 1 + 4 + 22 + Len(slot) + 1 + 1
    IN  message_stores([allocate_message(size) EXCEPT !.kind = 81],
            <<pgvictoria_write_byte(0, 81),
              pgvictoria_write_int32(1, size - 1),
              pgvictoria_write_string(5, <<82, 69, 65, 68, 95, 82, 69, 80, 76, 73, 67, 65, 84, 73, 79, 78, 95, 83, 76, 79, 84, 32>>),
              pgvictoria_write_string(5 + 22, slot),
              pgvictoria_write_string(5 + 22 + Len(slot), <<59>>)>>)

\* "START_REPLICATION [SLOT <slot> ]PHYSICAL <xlogpos or 0/0> TIMELINE <n>;".
pgvictoria_create_start_replication_message(xlogpos, timeline, slot) ==
    LET cmd == <<83, 84, 65, 82, 84, 95, 82, 69, 80, 76, 73, 67, 65, 84, 73, 79, 78, 32>>
               \o (IF Len(slot) > 0 THEN <<83, 76, 79, 84, 32>> \o slot \o <<32>> ELSE <<>>)
               \o <<80, 72, 89, 83, 73, 67, 65, 76, 32>>
               \o (IF Len(xlogpos) > 0 THEN xlogpos ELSE <<48, 47, 48>>)
               \o <<32, 84, 73, 77, 69, 76, 73, 78, 69, 32>> \o Decimal(timeline) \o <<59>>
        size == 1 + 4 + Len(cmd) + 1
    IN  message_stores([allocate_message(size) EXCEPT !.kind = 81],
            <<pgvictoria_write_byte(0, 81),
              pgvictoria_write_int32(1, size - 1),
              memcpy(5, cmd, Len(cmd))>>)

\* The last int64 is the time since 2000-01-01, `stamp` here.
pgvictoria_create_standby_status_update_message(received, flushed, applied, stamp) ==
    LET size == 1 + 4 + 1 + 8 + 8 + 8 + 8 + 1
    IN  message_stores([allocate_message(size) EXCEPT !.kind = 100],
            <<pgvictoria_write_byte(0, 100),
              pgvictoria_write_int32(1, size - 1),
              pgvictoria_write_byte(1 + 4, 114),
              pgvictoria_write_int64(1 + 4 + 1, received),
              pgvictoria_write_int64(1 + 4 + 1 + 8, flushed),
              pgvictoria_write_int64(1 + 4 + 1 + 8 + 8, applied),
              pgvictoria_write_int64(1 + 4 + 1 + 8 + 8 + 8, stamp),
              pgvictoria_write_byte(1 + 4 + 1 + 8 + 8 + 8 + 8, 0)>>)

pgvictoria_create_query_message(query) ==
    LET cmd == query
        size == 1 + 4 + Len(cmd) + 1
    IN  message_stores([allocate_message(size) EXCEPT !.kind = 81],
            <<pgvictoria_write_byte(0, 81),
              pgvictoria_write_int32(1, size - 1),
              memcpy(5, cmd, Len(cmd))>>)

\* The CopyData message pgvictoria_send_copy_data builds before it writes it.
pgvictoria_send_copy_data(buffer, nbytes) ==
    LET size == 1 + 4 + nbytes
    IN  message_stores([allocate_message(size) EXCEPT !.kind = 100],
            <<pgvictoria_write_byte(0, 100),
              pgvictoria_write_int32(1, size - 1),
              memcpy(5, buffer, nbytes)>>)

\* The arguments of the calls of this model: strings of up to MaxArgLen bytes
\* out of "a" and "b", the timelines 1 and 10, and the cells of a DataRow.
Strings == UNION {[1..k -> {97, 98}] : k \in 0..MaxArgLen}

NoArgs ==
    [s1 |-> <<>>, s2 |-> <<>>, s3 |-> <<>>, n |-> 0, flag |-> FALSE, cells |-> <<>>]

ConstructorCalls ==
    {[fn |-> "startup", args |-> [NoArgs EXCEPT !.s1 = u, !.s2 = d, !.flag = r]] :
        u \in Strings, d \in Strings, r \in BOOLEAN}
    \cup {[fn |-> f, args |-> [NoArgs EXCEPT !.s1 = s]] :
            f \in {"auth_password_response", "auth_md5_response",
                   "auth_scram256_response", "auth_scram256_final",
                   "read_replication_slot", "query"},
            s \in Strings}
    \cup {[fn |-> "auth_scram256_continue",
           args |-> [NoArgs EXCEPT !.s1 = c, !.s2 = n, !.s3 = t]] :
            c \in Strings, n \in {<<>>, <<98>>}, t \in {<<>>, <<97, 98>>}}
    \cup {[fn |-> "auth_scram256_continue_response",
           args |-> [NoArgs EXCEPT !.s1 = w, !.s2 = q]] :
            w \in Strings, q \in {<<>>, <<97>>}}
    \cup {[fn |-> f, args |-> NoArgs] : f \in {"ssl", "identify_system"}}
    \cup {[fn |-> f, args |-> [NoArgs EXCEPT !.n = t]] :
            f \in {"timeline_history", "standby_status_update"}, t \in {1, 10}}
    \cup {[fn |-> "start_replication",
           args |-> [NoArgs EXCEPT !.s1 = x, !.n = t, !.s2 = l]] :
            x \in {<<>>, <<97>>}, t \in {1, 10}, l \in {<<>>, <<98>>}}
    \cup {[fn |-> "send_copy_data", args |-> [NoArgs EXCEPT !.s1 = b, !.n = Len(b)]] :
            b \in Strings}

create_message(fn, a) ==
    CASE fn = "startup" -> pgvictoria_create_startup_message(a.s1, a.s2, a.flag)
      [] fn = "auth_password_response" -> pgvictoria_create_auth_password_response(a.s1)
      [] fn = "auth_md5_response" -> pgvictoria_create_auth_md5_response(a.s1)
      [] fn = "auth_scram256_response" -> pgvictoria_create_auth_scram256_response(a.s1)
      [] fn = "auth_scram256_continue" ->
            pgvictoria_create_auth_scram256_continue(a.s1, a.s2, a.s3)
      [] fn = "auth_scram256_continue_response" ->
            pgvictoria_create_auth_scram256_continue_response(a.s1, a.s2)
      [] fn = "auth_scram256_final" -> pgvictoria_create_auth_scram256_final(a.s1)
      [] fn = "ssl" -> pgvictoria_create_ssl_message
      [] fn = "identify_system" -> pgvictoria_create_identify_system_message
      [] fn = "timeline_history" -> pgvictoria_create_timeline_history_message(a.n)
      [] fn = "read_replication_slot" ->
            pgvictoria_create_read_replication_slot_message(a.s1)
      [] fn = "start_replication" ->
            pgvictoria_create_start_replication_message(a.s1, a.n, a.s2)
      [] fn = "standby_status_update" ->
            pgvictoria_create_standby_status_update_message(a.n, a.n, a.n, a.n)
      [] fn = "query" -> pgvictoria_create_query_message(a.s1)
      [] fn = "send_copy_data" -> pgvictoria_send_copy_data(a.s1, a.n)

\* A constructor is called and returns its message.
MessageCreate ==
    /\ m_pc = "call"
    /\ m_msg' = create_message(m_fn, m_args)
    /\ m_pc' = "done"
    /\ UNCHANGED <<m_fn, m_args, m_tuple, m_found, m_response, m_data>>

\* The rows decoded: each cell NULL, the empty string, "a" or "ab".
RowInputs ==
    UNION {[1..k -> {NullCell, Cell(<<>>), Cell(<<97>>), Cell(<<97, 98>>)}] :
              k \in 1..MaxRowColumns}

\* The DataRow frame of the cells: per column its length, -1 for NULL, and
\* the bytes.
RECURSIVE DataRowColumns(_)
DataRowColumns(cells) ==
    IF cells = <<>> THEN <<>>
    ELSE (IF Head(cells).null THEN I32(-1)
          ELSE I32(Len(Head(cells).bytes)) \o Head(cells).bytes)
         \o DataRowColumns(Tail(cells))

DataRow(cells) == Frame(68, <<0, Len(cells)>> \o DataRowColumns(cells))

\* create_D_tuple decodes the DataRow extracted from a reply.
RowDecode ==
    /\ m_pc = "row"
    /\ \E data \in {DataRow(m_args.cells)} :
          m_tuple' = create_D_tuple(Len(m_args.cells),
                                    Memory(data, Len(data), I32(0)),
                                    [kind |-> 68, at |-> 0, length |-> Len(data)])
    /\ m_pc' = "done"
    /\ UNCHANGED <<m_fn, m_args, m_msg, m_found, m_response, m_data>>

\* The highest index pgvictoria_has_message reads at from `offset` on (-1:
\* none): the tag of every frame visited and the four bytes of the length of
\* every frame passed over.
RECURSIVE has_message_reads(_, _, _, _)
has_message_reads(type, m, offset, fuel) ==
    IF offset >= m.size THEN -1
    ELSE IF pgvictoria_read_byte(m, offset) = type THEN offset
    ELSE IF fuel = 0 THEN offset + 4
    ELSE LET next == offset_add(m, offset + 1, pgvictoria_read_int32(m, offset + 1))
             rest == has_message_reads(type, m, next, fuel - 1)
         IN  IF rest > offset + 4 THEN rest ELSE offset + 4

\* pgvictoria_has_message(type, data, data_size) is called on a buffer; what
\* the heap holds behind the buffer is any of GarbageWords.
MessageScan ==
    /\ m_pc = "scan"
    /\ \E garbage \in GarbageWords :
          m_found' = pgvictoria_has_message(
                         m_args.n, Memory(m_args.s1, Len(m_args.s1), garbage))
    /\ m_pc' = "done"
    /\ UNCHANGED <<m_fn, m_args, m_msg, m_tuple, m_response, m_data>>

\* The replies classified: a RowDescription announcing `cols` columns named
\* "a" (as many as announced; none for a negative count), followed by `rows`
\* DataRows of that many cells "x" and ReadyForQuery; a CommandComplete; an
\* ErrorResponse.
ColumnCounts == {-1, 0, 1, 2, MAX_NUMBER_OF_COLUMNS, MAX_NUMBER_OF_COLUMNS + 1}

I16(v) == <<((v + 65536) % 65536) \div 256, (v + 65536) % 256>>

RowDescription(cols) ==
    LET RECURSIVE fields(_)
        fields(k) == IF k <= 0 THEN <<>>
                     ELSE <<97, 0>> \o [i \in 1..18 |-> 0] \o fields(k - 1)
    IN  Frame(84, I16(cols) \o fields(cols))

QueryReplies ==
    {[cols |-> n,
      wire |-> RowDescription(n)
               \o (IF rows = 1
                   THEN DataRow([i \in 1..n |-> Cell(<<120>>)]) ELSE <<>>)
               \o FrameBytes("Z")] : n \in ColumnCounts, rows \in {0, 1}}
    \cup {[cols |-> 1, wire |-> FrameBytes("C") \o FrameBytes("Z")],
          [cols |-> 0, wire |-> FrameBytes("E") \o FrameBytes("Z")]}

\* No reply has been classified.
NoResponse ==
    [pc |-> "none", ret |-> -1, response |-> Response("UNSET", 0, <<>>, <<>>, FALSE)]

\* Lines 910-994 run on an accumulated reply.
ResponseBuild ==
    /\ m_pc = "reply"
    /\ m_response' = query_classify(Memory(m_args.s1, Len(m_args.s1), I32(0)))
    /\ m_pc' = "built"
    /\ UNCHANGED <<m_fn, m_args, m_msg, m_tuple, m_found, m_data>>

\* What pgvictoria_query_response_get_data ends with: out is "NULL", "data"
\* (the cell `bytes`), "wild" (a pointer that is no cell of the tuple) or
\* "SIGSEGV"; outside tells that data[column] was read outside the array.
NoData == [out |-> "none", bytes |-> <<>>, column |-> 0, outside |-> FALSE]

GetData(out, bytes, column, outside) ==
    [out |-> out, bytes |-> bytes, column |-> column, outside |-> outside]

\* Lines 1042-1051. response->tuples is NULL for a reply without DataRow: the
\* load of tuples->data faults. data holds number_of_columns pointers; an
\* index outside them reads what the heap holds there (`heap`).
pgvictoria_query_response_get_data(response, column, heap) ==
    IF response.ptr = "NULL" \/ column > response.number_of_columns
    THEN GetData("NULL", <<>>, column, FALSE)
    ELSE IF response.tuples = <<>> THEN GetData("SIGSEGV", <<>>, column, FALSE)
    ELSE IF column + 1 \in DOMAIN response.tuples[1]
    THEN LET cell == response.tuples[1][column + 1]
         IN  IF cell.null THEN GetData("NULL", <<>>, column, FALSE)
             ELSE GetData("data", cell.bytes, column, FALSE)
    ELSE GetData(heap, <<>>, column, TRUE)

\* The caller asks for a column of the response the call left in *response.
ResponseGetData ==
    /\ m_pc = "built"
    /\ m_response.pc = "done"
    /\ \E column \in -1..(m_response.response.number_of_columns + 1),
          heap \in {"NULL", "wild"} :
          m_data' = pgvictoria_query_response_get_data(
                        m_response.response, column, heap)
    /\ m_pc' = "done"
    /\ UNCHANGED <<m_fn, m_args, m_msg, m_tuple, m_found, m_response>>

MessageIdle ==
    /\ m_pc = "idle"
    /\ m_fn = "none"
    /\ m_args = NoArgs
    /\ m_msg = allocate_message(0)
    /\ m_tuple = <<>>
    /\ m_found = "none"
    /\ m_response = NoResponse
    /\ m_data = NoData

(***************************************************************************)
(* File encryption (aes.c)                                                 *)
(***************************************************************************)
\* A file name is the sequence of its dot-separated parts; <<>> is NULL.
\* pgvictoria_strip_extension drops the last part (a name of one part is
\* returned unchanged).
pgvictoria_strip_extension(s) ==
    IF Len(s) > 1 THEN SubSeq(s, 1, Len(s) - 1) ELSE s

\* pgvictoria_delete_file removes the file from the directory.
pgvictoria_delete_file(files, file) ==
    [files EXCEPT ![file] = [exists |-> FALSE, data |-> <<>>]]

\* The steps of encrypt_file and of encrypt_decrypt_buffer that can fail, in
\* the order of the source.
AesFaults ==
    {"none", "malloc", "master_key", "derive_key_iv", "ctx_new", "fopen_in",
     "fopen_out", "cipher_init", "cipher_update", "fwrite", "fread",
     "cipher_final"}

\* The cipher get_cipher names for a mode: its chaining and key size.
get_cipher(mode) ==
    CASE mode = ENCRYPTION_AES_256_CBC -> [chain |-> "cbc", bits |-> 256]
      [] mode = ENCRYPTION_AES_192_CBC -> [chain |-> "cbc", bits |-> 192]
      [] mode = ENCRYPTION_AES_128_CBC -> [chain |-> "cbc", bits |-> 128]
      [] mode = ENCRYPTION_AES_256_CTR -> [chain |-> "ctr", bits |-> 256]
      [] mode = ENCRYPTION_AES_192_CTR -> [chain |-> "ctr", bits |-> 192]
      [] mode = ENCRYPTION_AES_128_CTR -> [chain |-> "ctr", bits |-> 128]
      [] OTHER -> [chain |-> "cbc", bits |-> 256]

\* The cipher get_cipher_buffer names for a mode.
get_cipher_buffer(mode) ==
    CASE mode = ENCRYPTION_AES_256_CBC -> [chain |-> "cbc", bits |-> 256]
      [] mode = ENCRYPTION_AES_192_CBC -> [chain |-> "cbc", bits |-> 192]
      [] mode = ENCRYPTION_AES_128_CBC -> [chain |-> "cbc", bits |-> 128]
      [] OTHER -> [chain |-> "cbc", bits |-> 256]

\* derive_key_iv: EVP_BytesToKey fills as many key bytes as the cipher of
\* get_cipher(mode) takes; the key is a byte made of the password and of that
\* number.
derive_key_iv(password, mode) == (password + get_cipher(mode).bits \div 8) % 256

\* The ciphers, scaled to blocks of one byte: a byte is shifted by the key on
\* encryption and back on decryption. CBC pads: the padding block is the
\* encryption of 16, and decryption holds the last block back. CTR is a
\* stream: as many bytes out as in.
EVP_CipherUpdate(cipher, key, enc, held, inbuf) ==
    IF enc = 1
    THEN [out |-> [i \in 1..Len(inbuf) |-> (inbuf[i] + key) % 256],
          held |-> <<>>]
    ELSE IF cipher.chain = "ctr"
    THEN [out |-> [i \in 1..Len(inbuf) |-> (inbuf[i] + 256 - key) % 256],
          held |-> <<>>]
    ELSE LET all == held \o inbuf
         IN  [out |-> [i \in 1..(Len(all) - 1) |-> (all[i] + 256 - key) % 256],
              held |-> IF all = <<>> THEN <<>> ELSE <<all[Len(all)]>>]

\* Encryption emits the padding block; decryption fails unless the block
\* held back is a padding block. CTR has nothing to add.
EVP_CipherFinal_ex(cipher, key, enc, held) ==
    IF cipher.chain = "ctr" THEN [ok |-> TRUE, out |-> <<>>]
    ELSE IF enc = 1
    THEN [ok |-> TRUE, out |-> <<(16 + key) % 256>>]
    ELSE [ok |-> held # <<>> /\ (held[1] + 256 - key) % 256 = 16, out |-> <<>>]

\* The caller's output pointer: NULL, or a buffer of `alloc` bytes of which
\* the first Len(data) were written.
NullBuffer == [null |-> TRUE, alloc |-> 0, data |-> <<>>]

\* A variant of encrypt_decrypt_buffer that does not terminate the plaintext.
encrypt_decrypt_buffer_without_nul(origin, enc, mode, master_key, fault) ==
    LET cipher == get_cipher_buffer(mode)
        key == derive_key_iv(master_key, mode)
        u == EVP_CipherUpdate(cipher, key, enc, <<>>, origin)
        f == EVP_CipherFinal_ex(cipher, key, enc, u.held)
    IN  [ret |-> IF fault = "none" /\ f.ok THEN 0 ELSE 1,
         res_buffer |-> [null |-> FALSE, alloc |-> Len(origin) + enc + 1,
                         data |-> u.out \o f.out],
         res_size |-> Len(u.out) + Len(f.out),
         ctx |-> "freed"]

\* encrypt_decrypt_buffer: what it returns, *res_buffer and *res_size after
\* it (both as the caller passed them until they are assigned), and the
\* cipher context ("none": not created, "freed"). The block size is 1.
encrypt_decrypt_buffer(origin, enc, mode, master_key, fault) ==
    LET cipher == get_cipher_buffer(mode)
        outbuf_size == IF enc = 1 THEN Len(origin) + 1 ELSE Len(origin)
        buffer(data) == [null |-> FALSE, alloc |-> outbuf_size + 1, data |-> data]
        key == derive_key_iv(master_key, mode)
        u == EVP_CipherUpdate(cipher, key, enc, <<>>, origin)
        f == EVP_CipherFinal_ex(cipher, key, enc, u.held)
    IN  IF fault = "malloc"
        THEN [ret |-> 1, res_buffer |-> NullBuffer, res_size |-> 0, ctx |-> "none"]
        ELSE IF fault \in {"master_key", "derive_key_iv", "ctx_new"}
        THEN [ret |-> 1, res_buffer |-> buffer(<<>>), res_size |-> 0,
              ctx |-> "none"]
        ELSE IF fault \in {"cipher_init", "cipher_update"}
        THEN [ret |-> 1, res_buffer |-> buffer(<<>>), res_size |-> 0,
              ctx |-> "freed"]
        ELSE IF fault = "cipher_final" \/ ~f.ok
        THEN [ret |-> 1, res_buffer |-> buffer(u.out), res_size |-> Len(u.out),
              ctx |-> "freed"]
        ELSE [ret |-> 0,
              res_buffer |-> buffer(u.out \o f.out
                                       \o IF enc = 0 THEN <<0>> ELSE <<>>),
              res_size |-> Len(u.out) + Len(f.out),
              ctx |-> "freed"]

\* pgvictoria_encrypt_buffer is called on the origin buffer.
AesEncryptBuffer ==
    /\ a_pc = "encrypt_buffer"
    /\ a_buf' = [a_buf EXCEPT !.enc =
                    encrypt_decrypt_buffer(a_buf.origin, 1, a_buf.mode,
                        a_buf.master_key,
                        IF a_buf.faulty = 1 THEN a_fault ELSE "none")]
    /\ a_pc' = IF a_buf'.enc.ret = 0 THEN "decrypt_buffer" ELSE "done"
    /\ UNCHANGED <<a_args, a_fault, f_files, a_pos, a_held, a_rc, a_ret>>

\* pgvictoria_decrypt_buffer is called on what pgvictoria_encrypt_buffer gave,
\* or on the origin buffer when that was not called.
AesDecryptBuffer ==
    /\ a_pc = "decrypt_buffer"
    /\ a_buf' = [a_buf EXCEPT !.dec =
                    encrypt_decrypt_buffer(
                        IF a_buf.enc.ret = 0
                        THEN SubSeq(a_buf.enc.res_buffer.data, 1, a_buf.enc.res_size)
                        ELSE a_buf.origin,
                        0, a_buf.mode, a_buf.master_key,
                        IF a_buf.faulty = 0 THEN a_fault ELSE "none")]
    /\ a_pc' = "done"
    /\ UNCHANGED <<a_args, a_fault, f_files, a_pos, a_held, a_rc, a_ret>>

\* pgvictoria_encrypt_file / pgvictoria_decrypt_file up to the call of
\* encrypt_file: the source must exist, a missing target name is derived.
AesEnter ==
    /\ a_pc = "call"
    /\ IF ~f_files[a_args.from].exists
       THEN /\ a_ret' = 1
            /\ a_pc' = "done"
            /\ UNCHANGED a_args
       ELSE /\ a_args' =
                 [a_args EXCEPT !.to =
                     IF a_args.to # <<>> THEN a_args.to
                     ELSE IF a_args.enc = 1 THEN a_args.from \o <<"aes">>
                     ELSE pgvictoria_strip_extension(a_args.from)]
            /\ a_pc' = "encrypt_file"
            /\ UNCHANGED a_ret
    /\ UNCHANGED <<a_fault, f_files, a_pos, a_held, a_rc, a_buf>>

\* encrypt_file up to EVP_CipherInit_ex: master key, key and IV, context,
\* both files opened (opening the target creates or truncates it).
AesOpen ==
    /\ a_pc = "encrypt_file"
    /\ IF a_fault \in {"master_key", "derive_key_iv", "ctx_new", "fopen_in"}
       THEN a_rc' = 1 /\ a_pc' = "return" /\ UNCHANGED f_files
       ELSE IF a_fault = "fopen_out"
       THEN a_rc' = 1 /\ a_pc' = "return" /\ UNCHANGED f_files
       ELSE /\ f_files' = [f_files EXCEPT
                              ![a_args.to] = [exists |-> TRUE, data |-> <<>>]]
            /\ IF a_fault = "cipher_init"
               THEN a_rc' = 1 /\ a_pc' = "return"
               ELSE a_pc' = "fread" /\ UNCHANGED a_rc
    /\ a_pos' = 0
    /\ a_held' = <<>>
    /\ UNCHANGED <<a_args, a_fault, a_ret, a_buf>>

\* One pass of the loop of encrypt_file: read at most ENC_BUF_SIZE bytes of
\* the source, run the cipher over them and write the result; at end of file
\* run EVP_CipherFinal_ex, write the final block and return 0.
AesChunk ==
    /\ a_pc = "fread"
    /\ LET data == f_files[a_args.from].data
           inl == IF a_fault = "fread" THEN 0
                  ELSE MIN(ENC_BUF_SIZE, Len(data) - a_pos)
           inbuf == SubSeq(data, a_pos + 1, a_pos + inl)
           cipher == get_cipher(ENCRYPTION_AES_256_CBC)
           key == derive_key_iv(a_buf.master_key, ENCRYPTION_AES_256_CBC)
           u == EVP_CipherUpdate(cipher, key, a_args.enc, a_held, inbuf)
           f == EVP_CipherFinal_ex(cipher, key, a_args.enc, a_held)
           written(out) == [f_files EXCEPT ![a_args.to].data = @ \o out]
       IN  IF inl > 0
           THEN IF a_fault \in {"cipher_update", "fwrite"}
                THEN /\ a_rc' = 1 /\ a_pc' = "return"
                     /\ UNCHANGED <<f_files, a_pos, a_held>>
                ELSE /\ f_files' = written(u.out)
                     /\ a_pos' = a_pos + inl
                     /\ a_held' = u.held
                     /\ UNCHANGED <<a_rc, a_pc>>
           ELSE IF a_fault \in {"fread", "cipher_final"} \/ ~f.ok
                   \/ (a_fault = "fwrite" /\ f.out # <<>>)
                THEN /\ a_rc' = 1 /\ a_pc' = "return"
                     /\ UNCHANGED <<f_files, a_pos, a_held>>
                ELSE /\ f_files' = written(f.out)
                     /\ a_rc' = 0 /\ a_pc' = "return"
                     /\ UNCHANGED <<a_pos, a_held>>
    /\ UNCHANGED <<a_args, a_fault, a_ret, a_buf>>

\* A variant of the last step that returns without deleting the source.
AesDelete_keeps_source ==
    /\ a_pc = "return"
    /\ a_ret' = 0
    /\ a_pc' = "done"
    /\ UNCHANGED <<a_args, a_fault, f_files, a_pos, a_held, a_rc, a_buf>>

\* pgvictoria_encrypt_file / pgvictoria_decrypt_file after encrypt_file has
\* returned: its result is dropped, the source is deleted when it exists,
\* and the call returns 0.
AesDelete ==
    /\ a_pc = "return"
    /\ f_files' =
          IF f_files[a_args.from].exists
          THEN pgvictoria_delete_file(f_files, a_args.from)
          ELSE f_files
    /\ a_ret' = 0
    /\ a_pc' = "done"
    /\ UNCHANGED <<a_args, a_fault, a_pos, a_held, a_rc, a_buf>>

\* The directory the calls run in: "a" absent, empty or of three bytes (more
\* than one buffer), "a.aes" absent or the encryption of these three bytes,
\* "b" absent or of one byte.
AesDirectories ==
    {[n \in {<<"a">>, <<"a", "aes">>, <<"a", "aes", "aes">>, <<"b">>} |->
         IF n = <<"a">> THEN a
         ELSE IF n = <<"a", "aes">> THEN c
         ELSE IF n = <<"b">> THEN b
         ELSE [exists |-> FALSE, data |-> <<>>]] :
       a \in {[exists |-> FALSE, data |-> <<>>],
              [exists |-> TRUE, data |-> <<>>],
              [exists |-> TRUE, data |-> <<1, 2, 1>>]},
       c \in {[exists |-> FALSE, data |-> <<>>],
              [exists |-> TRUE, data |-> <<102, 103, 102, 117>>]},
       b \in {[exists |-> FALSE, data |-> <<>>],
              [exists |-> TRUE, data |-> <<2>>]}}

\* No buffer call was made: the master key of the installation, no
\* arguments, no results.
AesNoBuffer ==
    [master_key |-> 69, origin |-> <<>>, mode |-> ENCRYPTION_NONE, faulty |-> 1,
     enc |-> [ret |-> -1, res_buffer |-> NullBuffer, res_size |-> 0, ctx |-> "none"],
     dec |-> [ret |-> -1, res_buffer |-> NullBuffer, res_size |-> 0, ctx |-> "none"]]

\* No file call in progress.
AesIdle ==
    /\ a_pc = "idle"
    /\ a_args = [from |-> <<>>, to |-> <<>>, enc |-> 1]
    /\ a_fault = "none"
    /\ f_files \in {d \in AesDirectories : \A n \in DOMAIN d : ~d[n].exists}
    /\ a_pos = 0
    /\ a_held = <<>>
    /\ a_rc = -1
    /\ a_ret = -1
    /\ a_buf = AesNoBuffer

(***************************************************************************)
(* Configuration                                                           *)
(***************************************************************************)
\* struct server and struct user: memory that was never written is zero.
Server(name, host, port, username) ==
    [name |-> name, host |-> host, port |-> port, username |-> username]

ZeroServer == Server("", "", 0, "")

User(username, password) == [username |-> username, password |-> password]

ZeroUser == User("", "")

\* servers[i] / users[i] of a configuration whose first Len(list) slots were
\* written.
Slot(list, zero, i) == IF i < Len(list) THEN list[i + 1] ELSE zero

\* A zeroed struct main_configuration (fresh shared memory).
ZeroConfiguration ==
    [host |-> "", log_type |-> "0", log_level |-> "0", log_path |-> "",
     log_rotation_size |-> 0, log_rotation_age |-> 0, log_mode |-> "0",
     log_line_prefix |-> "", authentication_timeout |-> 0, pidfile |-> "",
     libev |-> "", backlog |-> 0, hugepage |-> HUGEPAGE_OFF,
     update_process_title |-> UPDATE_PROCESS_TITLE_NEVER, unix_socket_dir |-> "",
     servers |-> <<>>, number_of_servers |-> 0,
     users |-> <<>>, number_of_users |-> 0]

pgvictoria_init_main_configuration(shm) ==
    [shm EXCEPT !.authentication_timeout = DEFAULT_AUTHENTICATION_TIMEOUT,
                !.backlog = DEFAULT_BACKLOG,
                !.hugepage = HUGEPAGE_TRY,
                !.update_process_title = UPDATE_PROCESS_TITLE_VERBOSE,
                !.log_type = "CONSOLE",
                !.log_level = "INFO",
                !.log_mode = "APPEND"]

\* The keys of the [pgvictoria] section and the values the files of this model
\* give them.
FieldValues ==
    [host |-> {"", "localhost", "*"},
     log_type |-> {"CONSOLE", "FILE"},
     log_level |-> {"INFO", "DEBUG1"},
     log_path |-> {"", "pgvictoria.log"},
     log_rotation_size |-> {0, 1},
     log_rotation_age |-> {0, 1},
     log_mode |-> {"APPEND", "CREATE"},
     log_line_prefix |-> {"", "%Y"},
     authentication_timeout |-> {DEFAULT_AUTHENTICATION_TIMEOUT, 2 * DEFAULT_AUTHENTICATION_TIMEOUT},
     pidfile |-> {"", "a.pid", "b.pid"},
     libev |-> {"", "epoll"},
     backlog |-> {DEFAULT_BACKLOG \div 2, DEFAULT_BACKLOG, 2 * DEFAULT_BACKLOG},
     hugepage |-> {HUGEPAGE_OFF, HUGEPAGE_TRY, HUGEPAGE_ON},
     update_process_title |-> {UPDATE_PROCESS_TITLE_NEVER, UPDATE_PROCESS_TITLE_VERBOSE},
     unix_socket_dir |-> {"", "/tmp", "/etc/passwd"}]

\* The paths that are directories.
Directories == {"/tmp"}

\* The server sections and the user lines the files of this model hold.
ServerValues ==
    {Server("primary", "localhost", 5432, "repl"),
     Server("primary", "otherhost", 5432, "repl"),
     Server("primary", "localhost", 5433, "repl"),
     Server("primary", "localhost", 5432, "admin"),
     Server("replica", "localhost", 5432, "repl"),
     Server("all", "localhost", 5432, "repl"),
     Server("primary", "", 5432, "repl"),
     Server("primary", "localhost", 0, "repl"),
     Server("primary", "localhost", 5432, "")}

UserValues == {User("repl", "secret"), User("repl", "changed"), User("admin", "secret")}

\* The keys `user` and `port` a file has in its [pgvictoria] section: none
\* ("" and 0), and whether that section is the last of the file or the first.
NoStray == [user |-> "", port |-> 0, last |-> FALSE]

\* The struct server pending at the end of the file: the last server section,
\* or zeroes. A `user` key of a [pgvictoria] section that follows it has put
\* "pgvictoria" over its name and the value over its username (the names of
\* this model are no longer than these), a `port` key has set its port. A
\* [pgvictoria] section before the server sections is wiped by the memset of
\* the first of them.
pending_server(file) ==
    LET n == Len(file.conf.servers)
        srv == IF n = 0 THEN ZeroServer ELSE file.conf.servers[n]
        seen == file.stray.last \/ n = 0
    IN  [name |-> IF seen /\ file.stray.user # "" THEN "pgvictoria" ELSE srv.name,
         host |-> srv.host,
         port |-> IF seen /\ file.stray.port # 0 THEN file.stray.port ELSE srv.port,
         username |-> IF seen /\ file.stray.user # "" THEN file.stray.user
                      ELSE srv.username]

\* pgvictoria_read_main_configuration: the file's keys overwrite the snapshot,
\* each server section fills the next slot. Inside the loop a section is stored
\* only while idx_server <= NUMBER_OF_SERVERS; the pending struct is stored
\* after the loop at servers[idx_server - 1] when its name is not empty,
\* without a test of the index, and number_of_servers is idx_server. A slot
\* past servers[] lies in users[] of the segment; the slots skipped between
\* keep what was there (ZeroServer in a fresh segment). servers[-1] lies over
\* the end of home_dir and the log settings: its host (zeroes) covers log_type,
\* log_level and the start of log_path, its username covers log_mode,
\* log_rotation_size, log_rotation_age and log_line_prefix from its fourth
\* character on. `slots` are the indexes stored to.
pgvictoria_read_main_configuration(shm, file) ==
    IF ~file.exists THEN [ret |-> 1, shm |-> shm, slots |-> {}]
    ELSE LET n == Len(file.conf.servers)
             srv == pending_server(file)
             below == n = 0 /\ srv.name # ""
         IN  [ret |-> 0,
              shm |-> [k \in DOMAIN shm |->
                         IF below /\ k \in {"log_type", "log_level"} THEN "0"
                         ELSE IF below /\ k = "log_path" THEN ""
                         ELSE IF below /\ k = "log_mode" THEN "tgre"
                         ELSE IF below /\ k = "log_rotation_size" THEN 115
                         ELSE IF below /\ k = "log_rotation_age" THEN 0
                         ELSE IF below /\ k = "log_line_prefix" THEN ""
                         ELSE IF k \in DOMAIN FieldValues THEN file.conf[k]
                         ELSE IF k = "servers"
                         THEN [i \in 1..n |->
                                  IF i = n THEN srv
                                  ELSE IF i <= NUMBER_OF_SERVERS
                                  THEN file.conf.servers[i] ELSE ZeroServer]
                         ELSE IF k = "number_of_servers" THEN n
                         ELSE shm[k]],
              slots |-> {i - 1 : i \in 1..MIN(n, NUMBER_OF_SERVERS)}
                           \cup (IF n > 0 \/ below THEN {n - 1} ELSE {})]

\* pgvictoria_read_users_configuration: 1 when the file cannot be opened or a
\* line is malformed, 2 without the master key, 3 above NUMBER_OF_USERS. The
\* loop stores line after line at users[index] and compares index with
\* NUMBER_OF_USERS only after the last line: the entries past users[] land in
\* the fields of the segment behind it, and an entry past SegmentUserSlots is
\* written outside the segment, where the store faults if nothing is mapped
\* there (`unmapped`) and the function never returns.
pgvictoria_read_users_configuration(shm, file, unmapped) ==
    IF ~file.exists THEN [ret |-> 1, shm |-> shm, crashed |-> FALSE]
    ELSE IF ~file.master_key THEN [ret |-> 2, shm |-> shm, crashed |-> FALSE]
    ELSE IF file.malformed THEN [ret |-> 1, shm |-> shm, crashed |-> FALSE]
    ELSE IF Len(file.users) > SegmentUserSlots /\ unmapped
    THEN [ret |-> -1, shm |-> shm, crashed |-> TRUE]
    ELSE [ret |-> IF Len(file.users) > NUMBER_OF_USERS THEN 3 ELSE 0,
          shm |-> [shm EXCEPT !.users = file.users,
                              !.number_of_users = Len(file.users)],
          crashed |-> FALSE]

pgvictoria_validate_main_configuration(shm) ==
    IF shm.host = "" THEN [ret |-> 1, shm |-> shm]
    ELSE IF shm.unix_socket_dir = "" THEN [ret |-> 1, shm |-> shm]
    ELSE IF shm.unix_socket_dir \notin Directories THEN [ret |-> 1, shm |-> shm]
    ELSE LET fixed == IF shm.backlog < 16 THEN [shm EXCEPT !.backlog = 16] ELSE shm
         IN  IF fixed.number_of_servers <= 0 THEN [ret |-> 1, shm |-> fixed]
             ELSE IF \E i \in 0..(fixed.number_of_servers - 1) :
                        LET srv == Slot(fixed.servers, ZeroServer, i)
                        IN  \/ srv.name = "pgvictoria"
                            \/ srv.name = "all"
                            \/ srv.host = ""
                            \/ srv.port = 0
                            \/ srv.username = ""
             THEN [ret |-> 1, shm |-> fixed]
             ELSE [ret |-> 0, shm |-> fixed]

\* A validation of the users that only asks for one to be there.
validate_users_counts_only(shm) ==
    IF shm.number_of_users <= 0 THEN 1 ELSE 0

pgvictoria_validate_users_configuration(shm) ==
    IF shm.number_of_users <= 0 THEN 1
    ELSE IF \E i \in 0..(shm.number_of_servers - 1) :
               \A j \in 0..(shm.number_of_users - 1) :
                  Slot(shm.servers, ZeroServer, i).username
                     # Slot(shm.users, ZeroUser, j).username
    THEN 1
    ELSE 0

restart_int(e, n) == e # n

restart_string(e, n) == e # n

\* copy_server compares the slots; it copies nothing.
copy_server(dst, src) ==
    \/ restart_string(dst.name, src.name)
    \/ restart_string(dst.host, src.host)
    \/ restart_int(dst.port, src.port)
    \/ restart_string(dst.username, src.username)

\* The condition under which transfer_configuration restarts the logger.
log_restart(c, reload) ==
    \/ c.log_path # reload.log_path
    \/ c.log_rotation_size # reload.log_rotation_size
    \/ c.log_rotation_age # reload.log_rotation_age
    \/ c.log_mode # reload.log_mode

\* A transfer that leaves the users of the live configuration as they were.
transfer_configuration_keeps_users(c, reload) ==
    [changed |-> FALSE,
     logger |-> <<>>,
     config |-> [c EXCEPT !.log_level = reload.log_level,
                          !.authentication_timeout = reload.authentication_timeout,
                          !.backlog = reload.backlog]]

\* A transfer in which copy_server copies the slots it compares.
transfer_configuration_copies_servers(c, reload) ==
    [changed |-> TRUE,
     logger |-> <<>>,
     config |-> [c EXCEPT !.servers = reload.servers,
                          !.number_of_servers = reload.number_of_servers]]

\* Lines 1504-1582. The comparison of pidfile (lines 1538-1541) is made when
\* the new value is not empty, and its result is dropped.
transfer_configuration(c, reload) ==
    LET changed ==
            \/ restart_string(c.host, reload.host)
            \/ restart_int(c.log_type, reload.log_type)
            \/ restart_string(c.libev, reload.libev)
            \/ restart_int(c.hugepage, reload.hugepage)
            \/ restart_int(c.update_process_title, reload.update_process_title)
            \/ restart_string(c.unix_socket_dir, reload.unix_socket_dir)
            \/ \E i \in 0..(NUMBER_OF_SERVERS - 1) :
                  copy_server(Slot(c.servers, ZeroServer, i),
                              Slot(reload.servers, ZeroServer, i))
            \/ restart_int(c.number_of_servers, reload.number_of_servers)
        restarted == log_restart(c, reload)
    IN  [changed |-> changed,
         logger |-> IF restarted THEN <<"stop", "copy", "start">> ELSE <<>>,
         config |->
            [c EXCEPT
               !.log_level = reload.log_level,
               !.log_rotation_size = IF restarted THEN reload.log_rotation_size ELSE @,
               !.log_rotation_age = IF restarted THEN reload.log_rotation_age ELSE @,
               !.log_mode = IF restarted THEN reload.log_mode ELSE @,
               !.log_line_prefix = IF restarted THEN reload.log_line_prefix ELSE @,
               !.log_path = IF restarted THEN reload.log_path ELSE @,
               !.authentication_timeout = reload.authentication_timeout,
               !.backlog = reload.backlog,
               !.users = reload.users,
               !.number_of_users = reload.number_of_users]]

\* Lines 774-798: the first step of a reload that fails ("none": none does),
\* and the snapshot as the steps before it left it.
reload_steps(shm_ok, unmapped, fm, fu) ==
    LET m == pgvictoria_read_main_configuration(
                 pgvictoria_init_main_configuration(ZeroConfiguration), fm)
        u == pgvictoria_read_users_configuration(m.shm, fu, unmapped)
        v == pgvictoria_validate_main_configuration(u.shm)
    IN  IF ~shm_ok
        THEN [failed |-> "create_shared_memory", shm |-> ZeroConfiguration,
              slots |-> {}, users_ret |-> -1]
        ELSE IF m.ret # 0
        THEN [failed |-> "read_main", shm |-> m.shm, slots |-> m.slots, users_ret |-> -1]
        ELSE IF u.crashed
        THEN [failed |-> "crash", shm |-> u.shm, slots |-> m.slots, users_ret |-> -1]
        ELSE IF u.ret # 0
        THEN [failed |-> "read_users", shm |-> u.shm, slots |-> m.slots, users_ret |-> u.ret]
        ELSE IF v.ret # 0
        THEN [failed |-> "validate_main", shm |-> v.shm, slots |-> m.slots, users_ret |-> u.ret]
        ELSE IF pgvictoria_validate_users_configuration(v.shm) # 0
        THEN [failed |-> "validate_users", shm |-> v.shm, slots |-> m.slots, users_ret |-> u.ret]
        ELSE [failed |-> "none", shm |-> v.shm, slots |-> m.slots, users_ret |-> u.ret]

\* A reload whose error path still transfers the snapshot.
reload_transfers_on_error(c, steps) ==
    [ret |-> IF steps.failed # "none" THEN 1 ELSE 0,
     restart |-> IF steps.failed # "none" THEN TRUE
                 ELSE transfer_configuration(c, steps.shm).changed,
     config |-> transfer_configuration(c, steps.shm).config,
     transferred |-> TRUE,
     logger |-> transfer_configuration(c, steps.shm).logger]

\* pgvictoria_reload_configuration on the live configuration c, the steps
\* having gone as `steps` says.
pgvictoria_reload_configuration(c, steps) ==
    IF steps.failed = "crash"
    THEN [ret |-> -1, restart |-> FALSE, config |-> c, transferred |-> FALSE,
          logger |-> <<>>]
    ELSE IF steps.failed # "none"
    THEN [ret |-> 1, restart |-> TRUE, config |-> c, transferred |-> FALSE,
          logger |-> <<>>]
    ELSE [ret |-> 0,
          restart |-> transfer_configuration(c, steps.shm).changed,
          config |-> transfer_configuration(c, steps.shm).config,
          transferred |-> TRUE,
          logger |-> transfer_configuration(c, steps.shm).logger]

\* The files pgvictoria was started with.
BaselineMain ==
    [exists |-> TRUE, stray |-> NoStray,
     conf |-> [host |-> "localhost", log_type |-> "CONSOLE", log_level |-> "INFO",
               log_path |-> "", log_rotation_size |-> 0, log_rotation_age |-> 0,
               log_mode |-> "APPEND", log_line_prefix |-> "",
               authentication_timeout |-> DEFAULT_AUTHENTICATION_TIMEOUT,
               pidfile |-> "a.pid", libev |-> "", backlog |-> DEFAULT_BACKLOG,
               hugepage |-> HUGEPAGE_TRY,
               update_process_title |-> UPDATE_PROCESS_TITLE_VERBOSE,
               unix_socket_dir |-> "/tmp",
               servers |-> <<Server("primary", "localhost", 5432, "repl")>>]]

BaselineUsers ==
    [exists |-> TRUE, master_key |-> TRUE, malformed |-> FALSE,
     users |-> <<User("repl", "secret"), User("admin", "secret")>>]

\* The server sections of an edited file: none, one, a second one after the
\* first of the baseline, as many as fit, or one more than fit.
ServerLists ==
    {<<>>} \cup {<<srv>> : srv \in ServerValues}
           \cup {<<BaselineMain.conf.servers[1], srv>> : srv \in ServerValues}
           \cup {[i \in 1..n |-> BaselineMain.conf.servers[1]] :
                    n \in {NUMBER_OF_SERVERS, NUMBER_OF_SERVERS + 1}}

\* The user lines of an edited file: up to two, as many as fit, one more than
\* fit, or more than the segment has room for.
UserLists ==
    {<<>>} \cup {<<u>> : u \in UserValues}
           \cup {<<u1, u2>> : u1 \in UserValues, u2 \in UserValues}
           \cup {[i \in 1..n |-> User("repl", "secret")] :
                    n \in {NUMBER_OF_USERS, NUMBER_OF_USERS + 1, SegmentUserSlots + 1}}

\* A key of the [pgvictoria] section is given another value.
EditMain ==
    /\ edits < MaxEdits
    /\ \E k \in DOMAIN FieldValues :
          \E v \in FieldValues[k] \ {f_main.conf[k]} :
             f_main' = [f_main EXCEPT !.conf[k] = v]
    /\ edits' = edits + 1
    /\ UNCHANGED <<config, f_users, rl_ret, rl_restart, rl_before, rl_snapshot,
                   rl_failed, rl_transferred, rl_logger, rl_users_ret,
                   rl_slots>>

\* The server sections are rewritten.
EditServers ==
    /\ edits < MaxEdits
    /\ \E l \in ServerLists \ {f_main.conf.servers} :
          f_main' = [f_main EXCEPT !.conf.servers = l]
    /\ edits' = edits + 1
    /\ UNCHANGED <<config, f_users, rl_ret, rl_restart, rl_before, rl_snapshot,
                   rl_failed, rl_transferred, rl_logger, rl_users_ret,
                   rl_slots>>

\* The users file is rewritten (or damaged).
EditUsers ==
    /\ edits < MaxEdits
    /\ \/ \E l \in UserLists \ {f_users.users} :
             f_users' = [f_users EXCEPT !.users = l]
       \/ f_users' = [f_users EXCEPT !.malformed = ~@]
    /\ edits' = edits + 1
    /\ UNCHANGED <<config, f_main, rl_ret, rl_restart, rl_before, rl_snapshot,
                   rl_failed, rl_transferred, rl_logger, rl_users_ret,
                   rl_slots>>

\* A file, or the master key, is removed or put back.
EditEnvironment ==
    /\ edits < MaxEdits
    /\ \/ /\ f_main' = [f_main EXCEPT !.exists = ~@]
          /\ UNCHANGED f_users
       \/ /\ f_users' = [f_users EXCEPT !.exists = ~@]
          /\ UNCHANGED f_main
       \/ /\ f_users' = [f_users EXCEPT !.master_key = ~@]
          /\ UNCHANGED f_main
    /\ edits' = edits + 1
    /\ UNCHANGED <<config, rl_ret, rl_restart, rl_before, rl_snapshot,
                   rl_failed, rl_transferred, rl_logger, rl_users_ret,
                   rl_slots>>

\* SIGHUP: pgvictoria_reload_configuration runs; the shared memory for the
\* snapshot may not be had, and the page behind it may not be mapped. A process
\* that faulted handles no further signal.
Reload ==
    /\ rl_failed # "crash"
    /\ \E shm_ok \in BOOLEAN, unmapped \in BOOLEAN :
          \E steps \in {reload_steps(shm_ok, unmapped, f_main, f_users)} :
             \E res \in {pgvictoria_reload_configuration(config, steps)} :
                /\ config' = res.config
                /\ rl_ret' = res.ret
                /\ rl_restart' = res.restart
                /\ rl_transferred' = res.transferred
                /\ rl_logger' = res.logger
                /\ rl_users_ret' = steps.users_ret
                /\ rl_slots' = steps.slots
                /\ rl_failed' = steps.failed
                /\ rl_snapshot' = steps.shm
    /\ rl_before' = config
    /\ UNCHANGED <<f_main, f_users, edits>>

\* No reload has run; the live configuration is what startup read.
ConfigurationIdle ==
    /\ f_main = BaselineMain
    /\ f_users = BaselineUsers
    /\ config = reload_steps(TRUE, FALSE, BaselineMain, BaselineUsers).shm
    /\ edits = 0
    /\ rl_ret = -1
    /\ rl_restart = FALSE
    /\ rl_before = ZeroConfiguration
    /\ rl_snapshot = ZeroConfiguration
    /\ rl_failed = "idle"
    /\ rl_transferred = FALSE
    /\ rl_logger = <<>>
    /\ rl_users_ret = -1
    /\ rl_slots = {}

(***************************************************************************)
(* main: startup and shutdown of the process                               *)
(***************************************************************************)
\* What can go wrong in one run of main: nothing, the uid is 0, or the named
\* call fails.
StartupFaults ==
    {"none", "getuid", "create_shared_memory", "directory", "read_main",
     "read_users", "start_logging", "validate_main", "validate_users",
     "open", "write", "ev_default_loop"}

\* The steps of main in the order the code runs them.
StartupOrder ==
    <<"create_shared_memory", "init_main_configuration", "read_main",
      "read_users", "start_logging", "validate_main", "validate_users",
      "create_pidfile">>

\* The paths a PID file of this model can have.
PidPaths ==
    {<<"a.pid">>, <<"", "tmp", "pgvictoria.localhost.pid">>,
     <<"", "tmp", "pgvictoria.all.pid">>}

NoFile == [exists |-> FALSE, owner |-> "none", data |-> ""]

\* The PID file of another instance.
OtherPidFile == [exists |-> TRUE, owner |-> "other", data |-> "<other pid>\n"]

\* config->pidfile when none is configured: snprintf of
\* "%s/pgvictoria.%s.pid", without the slash when unix_socket_dir ends in one.
\* A path is the sequence of its components: "/tmp" is <<"", "tmp">> and
\* "/tmp/" is <<"", "tmp", "">>.
default_pidfile(unix_socket_dir, host) ==
    LET name == "pgvictoria." \o (IF host = "*" THEN "all" ELSE host) \o ".pid"
        ends_with_slash == unix_socket_dir # <<>>
                           /\ unix_socket_dir[Len(unix_socket_dir)] = ""
    IN  IF ~ends_with_slash
        THEN unix_socket_dir \o <<name>>
        ELSE SubSeq(unix_socket_dir, 1, Len(unix_socket_dir) - 1) \o <<name>>

\* create_pidfile: the return value, config->pidfile and the files after it.
create_pidfile(c, files, fault) ==
    LET pidfile == IF c.pidfile = <<>>
                   THEN default_pidfile(c.unix_socket_dir, c.host)
                   ELSE c.pidfile
        named == [c EXCEPT !.pidfile = pidfile]
        opened == [files EXCEPT ![pidfile] =
                      [exists |-> TRUE, owner |-> "self", data |-> ""]]
    IN  IF pidfile = <<>>
        THEN [ret |-> 0, config |-> named, files |-> files]
        ELSE IF files[pidfile].exists
        THEN [ret |-> 1, config |-> named, files |-> files]
        ELSE IF fault = "open"
        THEN [ret |-> 1, config |-> named, files |-> files]
        ELSE IF fault = "write"
        THEN [ret |-> 1, config |-> named, files |-> opened]
        ELSE [ret |-> 0, config |-> named,
              files |-> [opened EXCEPT ![pidfile].data = "<pid>\n"]]

\* remove_pidfile: the files after it.
remove_pidfile(c, files) ==
    IF c.pidfile # <<>> /\ files[c.pidfile].exists
    THEN [files EXCEPT ![c.pidfile] = NoFile]
    ELSE files

\* main, lines 1898-1902: the root account is refused.
MainGetuid ==
    /\ p_pc = "getuid"
    /\ IF p_env.fault = "getuid"
       THEN p_pc' = "exited" /\ p_exit' = 1
       ELSE p_pc' = "create_shared_memory" /\ UNCHANGED p_exit
    /\ UNCHANGED <<p_env, p_config, p_files, p_steps, p_pid_file_created,
                   p_signal>>

\* Lines 1904-1912: the shared memory is created and given its defaults;
\* config is NULL until then.
MainCreateSharedMemory ==
    /\ p_pc = "create_shared_memory"
    /\ IF p_env.fault = "create_shared_memory"
       THEN /\ p_pc' = "error"
            /\ p_steps' = Append(p_steps, "create_shared_memory")
            /\ UNCHANGED p_config
       ELSE /\ p_pc' = "directory"
            /\ p_steps' = p_steps \o <<"create_shared_memory",
                                       "init_main_configuration">>
            /\ p_config' = [p_config EXCEPT !.null = FALSE, !.running = TRUE]
    /\ UNCHANGED <<p_env, p_files, p_pid_file_created, p_exit, p_signal>>

\* Lines 1914-1978: a configuration directory that cannot be used ends the
\* process at once.
MainDirectory ==
    /\ p_pc = "directory"
    /\ IF p_env.fault = "directory"
       THEN p_pc' = "exited" /\ p_exit' = 1
       ELSE p_pc' = "read_main" /\ UNCHANGED p_exit
    /\ UNCHANGED <<p_env, p_config, p_files, p_steps, p_pid_file_created,
                   p_signal>>

\* Lines 1980-1998: pgvictoria_read_main_configuration.
MainReadMain ==
    /\ p_pc = "read_main"
    /\ p_steps' = Append(p_steps, "read_main")
    /\ IF p_env.fault = "read_main"
       THEN p_pc' = "error" /\ UNCHANGED p_config
       ELSE /\ p_pc' = "read_users"
            /\ p_config' = [p_config EXCEPT
                              !.pidfile = p_env.main.pidfile,
                              !.unix_socket_dir = p_env.main.unix_socket_dir,
                              !.host = p_env.main.host]
    /\ UNCHANGED <<p_env, p_files, p_pid_file_created, p_exit, p_signal>>

\* Lines 2000-2040: pgvictoria_read_users_configuration; 1, 2 and 3 are its
\* failures.
MainReadUsers ==
    /\ p_pc = "read_users"
    /\ p_steps' = Append(p_steps, "read_users")
    /\ p_pc' = IF p_env.users_ret \in {1, 2, 3} THEN "error" ELSE "start_logging"
    /\ UNCHANGED <<p_env, p_config, p_files, p_pid_file_created, p_exit,
                   p_signal>>

\* Lines 2042-2045: pgvictoria_start_logging.
MainStartLogging ==
    /\ p_pc = "start_logging"
    /\ p_steps' = Append(p_steps, "start_logging")
    /\ p_pc' = IF p_env.fault = "start_logging" THEN "error" ELSE "validate_main"
    /\ UNCHANGED <<p_env, p_config, p_files, p_pid_file_created, p_exit,
                   p_signal>>

\* Lines 2047-2050: pgvictoria_validate_main_configuration.
MainValidateMain ==
    /\ p_pc = "validate_main"
    /\ p_steps' = Append(p_steps, "validate_main")
    /\ p_pc' = IF p_env.fault = "validate_main" THEN "error" ELSE "validate_users"
    /\ UNCHANGED <<p_env, p_config, p_files, p_pid_file_created, p_exit,
                   p_signal>>

\* Lines 2051-2054: pgvictoria_validate_users_configuration.
MainValidateUsers ==
    /\ p_pc = "validate_users"
    /\ p_steps' = Append(p_steps, "validate_users")
    /\ p_pc' = IF p_env.fault = "validate_users" THEN "error" ELSE "create_pidfile"
    /\ UNCHANGED <<p_env, p_config, p_files, p_pid_file_created, p_exit,
                   p_signal>>

\* Lines 2058-2062: create_pidfile; pid_file_created is set when it returned 0.
MainCreatePidfile ==
    /\ p_pc = "create_pidfile"
    /\ p_steps' = Append(p_steps, "create_pidfile")
    /\ \E r \in {create_pidfile(p_config, p_files, p_env.fault)} :
          /\ p_config' = r.config
          /\ p_files' = r.files
          /\ p_pc' = IF r.ret # 0 THEN "error" ELSE "ev_default_loop"
          /\ p_pid_file_created' = (r.ret = 0)
    /\ UNCHANGED <<p_env, p_exit, p_signal>>

\* Lines 2064-2076: the event loop is obtained.
MainLoop ==
    /\ p_pc = "ev_default_loop"
    /\ p_pc' = IF p_env.fault = "ev_default_loop" THEN "error" ELSE "shutdown"
    /\ UNCHANGED <<p_env, p_config, p_files, p_steps, p_pid_file_created,
                   p_exit, p_signal>>

\* Lines 2078-2103: shutdown; the PID file is removed and main returns 0.
MainShutdown ==
    /\ p_pc = "shutdown"
    /\ p_files' = remove_pidfile(p_config, p_files)
    /\ p_pc' = "exited"
    /\ p_exit' = 0
    /\ UNCHANGED <<p_env, p_config, p_steps, p_pid_file_created, p_signal>>

\* Lines 2105-2123, the error label: remove_pidfile when pid_file_created,
\* config->running = false, exit(1). When the shared memory could not be
\* created config is still NULL and the store through it is undefined: the
\* process is killed by SIGSEGV, or the store is harmless and exit(1) follows.
MainError ==
    /\ p_pc = "error"
    /\ p_files' = IF p_pid_file_created
                  THEN remove_pidfile(p_config, p_files) ELSE p_files
    /\ p_pid_file_created' = FALSE
    /\ p_pc' = "exited"
    /\ IF p_config.null
       THEN /\ \/ p_signal' = "SIGSEGV" /\ UNCHANGED p_exit
               \/ p_exit' = 1 /\ UNCHANGED p_signal
            /\ UNCHANGED p_config
       ELSE /\ p_config' = [p_config EXCEPT !.running = FALSE]
            /\ p_exit' = 1
            /\ UNCHANGED p_signal
    /\ UNCHANGED <<p_env, p_steps>>

\* The process is not being started.
MainIdle ==
    /\ p_pc = "idle"
    /\ p_env = [fault |-> "none", users_ret |-> 0,
                main |-> [pidfile |-> <<>>, unix_socket_dir |-> <<>>, host |-> ""],
                files |-> [n \in PidPaths |-> NoFile]]
    /\ p_config = [null |-> TRUE, running |-> FALSE, pidfile |-> <<>>,
                   unix_socket_dir |-> <<>>, host |-> ""]
    /\ p_files = [n \in PidPaths |-> NoFile]
    /\ p_steps = <<>>
    /\ p_pid_file_created = FALSE
    /\ p_exit = -1
    /\ p_signal = "none"

(***************************************************************************)
(* Sizes (as_bytes)                                                        *)
(***************************************************************************)
\* A C string is the sequence of its characters.
isdigit(c) == c \in {"0", "1", "2", "3", "4", "5", "6", "7", "8", "9"}

isalpha(c) ==
    c \in {"A", "B", "C", "D", "E", "F", "G", "H", "I", "J", "K", "L", "M",
           "N", "O", "P", "Q", "R", "S", "T", "U", "V", "W", "X", "Y", "Z",
           "a", "b", "c", "d", "e", "f", "g", "h", "i", "j", "k", "l", "m",
           "n", "o", "p", "q", "r", "s", "t", "u", "v", "w", "x", "y", "z"}

DigitValue(c) ==
    CASE c = "0" -> 0 [] c = "1" -> 1 [] c = "2" -> 2 [] c = "3" -> 3
      [] c = "4" -> 4 [] c = "5" -> 5 [] c = "6" -> 6 [] c = "7" -> 7
      [] c = "8" -> 8 [] c = "9" -> 9

is_empty_string(str) ==
    \A i \in DOMAIN str : str[i] \in {" ", "\t", "\r", "\n"}

\* A number wider than 31 bits is held as five limbs base 65536, the lowest
\* first: a long is the four lowest, an int the two lowest (two's complement).
Limbs(v) == <<v % 65536, v \div 65536, 0, 0, 0>>

\* x * k + a for a limb sequence x and small k and a.
MulAdd(x, k, a) ==
    LET RECURSIVE go(_, _)
        go(i, carry) ==
            IF i > Len(x) THEN <<>>
            ELSE <<(x[i] * k + carry) % 65536>>
                 \o go(i + 1, (x[i] * k + carry) \div 65536)
    IN  go(1, a)

\* (int)val: the low 32 bits of the long.
ToInt(x) == IF x[2] >= 32768 THEN (x[2] - 65536) * 65536 + x[1] ELSE x[2] * 65536 + x[1]

FitsInt(x) == x[2] < 32768 /\ x[3] = 0 /\ x[4] = 0 /\ x[5] = 0

\* strtol(str, &endptr, 10) on a string of digits (as_bytes passes no other):
\* the value, and ERANGE with LONG_MAX when it does not fit the long.
strtol(str) ==
    LET RECURSIVE val(_)
        val(n) == IF n = 0 THEN Limbs(0)
                  ELSE MulAdd(val(n - 1), 10, DigitValue(str[n]))
        v == val(Len(str))
    IN  IF v[5] # 0 \/ v[4] >= 32768
        THEN [val |-> <<65535, 65535, 65535, 32767, 0>>, erange |-> TRUE]
        ELSE [val |-> v, erange |-> FALSE]

\* as_int on a string of digits: [ret, i].
as_int(str) ==
    LET r == strtol(str)
    IN  IF r.erange \/ str = <<>> THEN [ret |-> 1, i |-> 0]
        ELSE [ret |-> 0, i |-> ToInt(r.val)]

\* The loop of as_bytes from character i on; st is [value, multiplier,
\* multiplier_set, error].
RECURSIVE as_bytes_scan(_, _, _)
as_bytes_scan(str, i, st) ==
    IF i > Len(str) THEN st
    ELSE LET c == str[i]
         IN  IF isdigit(c)
             THEN as_bytes_scan(str, i + 1, [st EXCEPT !.value = Append(@, c)])
             ELSE IF isalpha(c) /\ st.multiplier_set
             THEN IF st.multiplier = 1 \/ c \notin {"b", "B"}
                  THEN [st EXCEPT !.error = TRUE]
                  ELSE as_bytes_scan(str, i + 1, st)
             ELSE IF isalpha(c)
             THEN as_bytes_scan(str, i + 1,
                      IF c \in {"M", "m"}
                      THEN [st EXCEPT !.multiplier = 1024 * 1024, !.multiplier_set = TRUE]
                      ELSE IF c \in {"G", "g"}
                      THEN [st EXCEPT !.multiplier = 1024 * 1024 * 1024,
                                      !.multiplier_set = TRUE]
                      ELSE IF c \in {"K", "k"}
                      THEN [st EXCEPT !.multiplier = 1024, !.multiplier_set = TRUE]
                      ELSE IF c \in {"B", "b"}
                      THEN [st EXCEPT !.multiplier = 1, !.multiplier_set = TRUE]
                      ELSE st)
             ELSE [st EXCEPT !.error = TRUE]

\* i_value * multiplier as limbs; multiplier is 1 or a power of 1024.
RECURSIVE multiply(_, _)
multiply(x, multiplier) ==
    IF multiplier = 1 THEN x ELSE multiply(MulAdd(x, 1024, 0), multiplier \div 1024)

\* What as_bytes ends with: the return value (-1: the call did not return),
\* *bytes, and whether the multiplication overflowed the int.
Size(ret, bytes, overflow) == [ret |-> ret, bytes |-> bytes, overflow |-> overflow]

\* as_bytes(str, bytes, default_bytes). A product outside the int is a signed
\* overflow: the build stores the low 32 bits (`overflow` = "wrap") or, when
\* it instruments signed arithmetic, aborts ("abort").
as_bytes(str, default_bytes, overflow) ==
    IF is_empty_string(str) THEN Size(0, default_bytes, FALSE)
    ELSE LET st == as_bytes_scan(str, 1, [value |-> <<>>, multiplier |-> 1,
                                          multiplier_set |-> FALSE, error |-> FALSE])
             n == as_int(st.value)
             product == multiply(Limbs(n.i), st.multiplier)
         IN  IF st.error \/ n.ret # 0 \/ n.i < 0
             THEN Size(1, default_bytes, FALSE)
             ELSE IF FitsInt(product) THEN Size(0, ToInt(product), FALSE)
             ELSE IF overflow = "wrap" THEN Size(0, ToInt(product), TRUE)
             ELSE Size(-1, default_bytes, TRUE)

\* The strings parsed: a number, then a suffix.
SizeNumbers ==
    {<<>>,
     <<"0">>,
     <<"1">>,
     <<"2">>,
     <<"3">>,
     <<"1", "0", "2", "3">>,
     <<"1", "0", "2", "4">>,
     <<"2", "0", "4", "7">>,
     <<"2", "0", "4", "8">>,
     <<"2", "0", "9", "7", "1", "5", "1">>,
     <<"2", "0", "9", "7", "1", "5", "2">>,
     <<"2", "1", "4", "7", "4", "8", "3", "6", "4", "7">>,
     <<"2", "1", "4", "7", "4", "8", "3", "6", "4", "8">>,
     <<"4", "2", "9", "4", "9", "6", "7", "2", "9", "6">>,
     <<"4", "2", "9", "4", "9", "6", "7", "2", "9", "7">>}

SizeSuffixes ==
    {<<>>,
     <<"B">>,
     <<"K">>,
     <<"M">>,
     <<"G">>,
     <<"K", "B">>,
     <<"M", "B">>,
     <<"G", "B">>,
     <<"b">>,
     <<"k">>,
     <<"m">>,
     <<"g">>,
     <<"k", "b">>,
     <<"B", "B">>,
     <<"K", "K">>,
     <<"X">>,
     <<"-">>}

\* as_bytes is called and returns.
AsBytes ==
    /\ s_pc = "call"
    /\ \E overflow \in {"wrap", "abort"} :
          s_out' = as_bytes(s_in.digits \o s_in.suffix, s_in.default_bytes, overflow)
    /\ s_pc' = "done"
    /\ UNCHANGED s_in

SizeIdle ==
    /\ s_pc = "idle"
    /\ s_in = [digits |-> <<>>, suffix |-> <<>>, default_bytes |-> 0]
    /\ s_out = Size(0, 0, FALSE)

\* pgvictoria_query_execute is about to be called on a connection.
Init ==
    /\ q_pc = "call"
    /\ q_ssl \in BOOLEAN
    /\ q_ret = -1
    /\ q_response = Response("UNSET", 0, <<>>, <<>>, FALSE)
    /\ q_body = <<>> /\ q_closed = FALSE /\ q_wire = <<>> /\ q_size = 0
    /\ q_writes = 0 /\ q_wstatus = "none" /\ q_everRead = FALSE
    /\ q_zFound = FALSE /\ q_readAfterZ = FALSE /\ q_nonOkAfterData = FALSE
    /\ errno = "0"
    /\ WriteIdle
    /\ ReadIdle
    /\ ConfigurationIdle
    /\ MessageIdle
    /\ AesIdle
    /\ MainIdle
    /\ SizeIdle

Next ==
    \/ (QueryEnter /\ UNCHANGED <<cvars, mvars, avars, pvars, svars>>)
    \/ (QueryWrite /\ UNCHANGED <<cvars, mvars, avars, pvars, svars>>)
    \/ (QueryWriteReturn /\ UNCHANGED <<cvars, mvars, avars, pvars, svars>>)
    \/ (QueryReadData /\ UNCHANGED <<cvars, mvars, avars, pvars, svars>>)
    \/ (QueryReadEof /\ UNCHANGED <<cvars, mvars, avars, pvars, svars>>)
    \/ (QueryReadFail /\ UNCHANGED <<cvars, mvars, avars, pvars, svars>>)

Spec == Init /\ [][Next]_vars

ReloadInit ==
    /\ ConfigurationIdle
    /\ MessageIdle
    /\ AesIdle
    /\ errno = "0"
    /\ WriteIdle
    /\ ReadIdle
    /\ QueryIdle
    /\ MainIdle
    /\ SizeIdle

ReloadNext ==
    \/ (EditMain /\ UNCHANGED <<wvars, errno, rvars, qvars, mvars, avars, pvars, svars>>)
    \/ (EditServers /\ UNCHANGED <<wvars, errno, rvars, qvars, mvars, avars, pvars, svars>>)
    \/ (EditUsers /\ UNCHANGED <<wvars, errno, rvars, qvars, mvars, avars, pvars, svars>>)
    \/ (EditEnvironment /\ UNCHANGED <<wvars, errno, rvars, qvars, mvars, avars, pvars, svars>>)
    \/ (Reload /\ UNCHANGED <<wvars, errno, rvars, qvars, mvars, avars, pvars, svars>>)

ReloadSpec == ReloadInit /\ [][ReloadNext]_vars

(***************************************************************************)
(* Specifications of the transport                                         *)
(***************************************************************************)
\* pgvictoria_write_message has been called with a message of w_len bytes.
WriteInit ==
    /\ w_ssl \in BOOLEAN
    /\ w_len \in WriteLengths
    /\ w_offset = write_enter(w_len).offset
    /\ w_totalbytes = write_enter(w_len).totalbytes
    /\ w_remaining = write_enter(w_len).remaining
    /\ w_keep_write = write_enter(w_len).keep_write
    /\ w_status = write_enter(w_len).status
    /\ w_attempts = 0
    /\ w_accepted = 0
    /\ w_inorder = TRUE
    /\ w_lastReq = 0
    /\ w_lastFail = "none"
    /\ w_retried = FALSE
    /\ errno \in ErrnoValues
    /\ ReadIdle
    /\ QueryIdle
    /\ ConfigurationIdle
    /\ MessageIdle
    /\ AesIdle
    /\ MainIdle
    /\ SizeIdle

WriteNext == WriteStep /\ UNCHANGED <<rvars, qvars, cvars, mvars, avars, pvars, svars>>

WriteSpec == WriteInit /\ [][WriteNext]_vars

\* pgvictoria_read_block_message (plain: block, BLOCK_TIMEOUT; TLS: no timeout)
\* or pgvictoria_read_timeout_message (block, the caller's timeout) has been
\* called; read_message is also entered without block.
ReadInit ==
    /\ r_ssl \in BOOLEAN
    /\ r_block \in BOOLEAN
    /\ r_timeout \in ReadTimeouts
    /\ r_ssl => r_block
    /\ r_keep_read = FALSE
    /\ r_status = "run"
    /\ r_attempts = 0
    /\ r_kind = -1
    /\ r_length = 0
    /\ r_entered = 0
    /\ r_last = [ret |-> 0, code |-> "none", first |-> -1, cleared |-> FALSE]
    /\ now = 0
    /\ so_rcvtimeo = IF r_ssl THEN 0 ELSE read_message_enter_rcvtimeo(r_timeout, 0)
    /\ errno \in ErrnoValues
    /\ WriteIdle
    /\ QueryIdle
    /\ ConfigurationIdle
    /\ MessageIdle
    /\ AesIdle
    /\ MainIdle
    /\ SizeIdle

ReadNext == ReadStep /\ UNCHANGED <<wvars, qvars, cvars, mvars, avars, pvars, svars>>

ReadSpec == ReadInit /\ [][ReadNext]_vars

(***************************************************************************)
(* Specification of the message constructors and of create_D_tuple         *)
(***************************************************************************)
MessageInit ==
    /\ \/ \E c \in ConstructorCalls :
             m_pc = "call" /\ m_fn = c.fn /\ m_args = c.args
       \/ \E cells \in RowInputs :
             /\ m_pc = "row" /\ m_fn = "create_D_tuple"
             /\ m_args = [NoArgs EXCEPT !.cells = cells]
       \/ \E b \in Bodies, z \in {<<>>, FrameBytes("Z")},
             type \in {67, 68, 69, 84, 90, 73, 120, 0} :
             /\ m_pc = "scan" /\ m_fn = "pgvictoria_has_message"
             /\ m_args = [NoArgs EXCEPT !.s1 = WireBytes(b) \o z, !.n = type]
       \/ \E reply \in QueryReplies :
             /\ m_pc = "reply" /\ m_fn = "pgvictoria_query_execute"
             /\ m_args = [NoArgs EXCEPT !.s1 = reply.wire, !.n = reply.cols]
    /\ m_msg = allocate_message(0)
    /\ m_tuple = <<>>
    /\ m_found = "none"
    /\ m_response = NoResponse
    /\ m_data = NoData
    /\ errno = "0"
    /\ WriteIdle
    /\ ReadIdle
    /\ QueryIdle
    /\ ConfigurationIdle
    /\ AesIdle
    /\ MainIdle
    /\ SizeIdle

MessageNext ==
    \/ (MessageCreate /\ UNCHANGED <<wvars, errno, rvars, qvars, cvars, avars, pvars, svars>>)
    \/ (RowDecode /\ UNCHANGED <<wvars, errno, rvars, qvars, cvars, avars, pvars, svars>>)
    \/ (MessageScan /\ UNCHANGED <<wvars, errno, rvars, qvars, cvars, avars, pvars, svars>>)
    \/ (ResponseBuild /\ UNCHANGED <<wvars, errno, rvars, qvars, cvars, avars, pvars, svars>>)
    \/ (ResponseGetData /\ UNCHANGED <<wvars, errno, rvars, qvars, cvars, avars, pvars, svars>>)

MessageSpec == MessageInit /\ [][MessageNext]_vars

(***************************************************************************)
(* Specification of pgvictoria_encrypt_file and pgvictoria_decrypt_file     *)
(***************************************************************************)
AesInit ==
    /\ \/ /\ a_pc = "call"
          /\ a_args \in [from : {<<"a">>, <<"a", "aes">>},
                         to : {<<>>, <<"a">>, <<"a", "aes">>, <<"b">>},
                         enc : {0, 1}]
          /\ f_files \in AesDirectories
          /\ a_buf = AesNoBuffer
       \/ /\ a_pc \in {"encrypt_buffer", "decrypt_buffer"}
          /\ a_args = [from |-> <<>>, to |-> <<>>, enc |-> 1]
          /\ f_files \in {d \in AesDirectories : \A n \in DOMAIN d : ~d[n].exists}
          /\ \E origin \in {<<>>, <<1>>, <<1, 2, 1>>, <<102, 103, 102, 117>>},
                mode \in ENCRYPTION_NONE..(ENCRYPTION_AES_128_CTR + 1),
                faulty \in {0, 1} :
                a_buf = [AesNoBuffer EXCEPT !.origin = origin, !.mode = mode,
                                            !.faulty = faulty]
    /\ a_fault \in AesFaults
    /\ a_pos = 0
    /\ a_held = <<>>
    /\ a_rc = -1
    /\ a_ret = -1
    /\ errno = "0"
    /\ WriteIdle
    /\ ReadIdle
    /\ QueryIdle
    /\ ConfigurationIdle
    /\ MessageIdle
    /\ MainIdle
    /\ SizeIdle

AesNext ==
    \/ (AesEnter /\ UNCHANGED <<wvars, errno, rvars, qvars, cvars, mvars, pvars, svars>>)
    \/ (AesOpen /\ UNCHANGED <<wvars, errno, rvars, qvars, cvars, mvars, pvars, svars>>)
    \/ (AesChunk /\ UNCHANGED <<wvars, errno, rvars, qvars, cvars, mvars, pvars, svars>>)
    \/ (AesDelete /\ UNCHANGED <<wvars, errno, rvars, qvars, cvars, mvars, pvars, svars>>)
    \/ (AesEncryptBuffer /\ UNCHANGED <<wvars, errno, rvars, qvars, cvars, mvars, pvars, svars>>)
    \/ (AesDecryptBuffer /\ UNCHANGED <<wvars, errno, rvars, qvars, cvars, mvars, pvars, svars>>)

AesSpec == AesInit /\ [][AesNext]_vars

(***************************************************************************)
(* Specification of a reload of a file with stray keys                     *)
(***************************************************************************)
\* The main file has a `user` key, a `port` key or both in its [pgvictoria]
\* section, before or after its server sections.
ParseInit ==
    /\ \E user \in {"", "postgres"}, port \in {0, 5433}, last \in BOOLEAN,
          l \in ServerLists :
          /\ user # "" \/ port # 0
          /\ f_main = [BaselineMain EXCEPT
                          !.stray = [user |-> user, port |-> port, last |-> last],
                          !.conf.servers = l]
    /\ f_users = BaselineUsers
    /\ config = reload_steps(TRUE, FALSE, BaselineMain, BaselineUsers).shm
    /\ edits = 0
    /\ rl_ret = -1
    /\ rl_restart = FALSE
    /\ rl_before = ZeroConfiguration
    /\ rl_snapshot = ZeroConfiguration
    /\ rl_failed = "idle"
    /\ rl_transferred = FALSE
    /\ rl_logger = <<>>
    /\ rl_users_ret = -1
    /\ rl_slots = {}
    /\ errno = "0"
    /\ WriteIdle
    /\ ReadIdle
    /\ QueryIdle
    /\ MessageIdle
    /\ AesIdle
    /\ MainIdle
    /\ SizeIdle

ParseNext == Reload /\ UNCHANGED <<wvars, errno, rvars, qvars, mvars, avars, pvars, svars>>

ParseSpec == ParseInit /\ [][ParseNext]_vars

(***************************************************************************)
(* Specification of as_bytes                                               *)
(***************************************************************************)
SizeInit ==
    /\ s_pc = "call"
    /\ s_in \in [digits : SizeNumbers, suffix : SizeSuffixes, default_bytes : {0, 1}]
    /\ s_out = Size(0, 0, FALSE)
    /\ errno = "0"
    /\ WriteIdle
    /\ ReadIdle
    /\ QueryIdle
    /\ ConfigurationIdle
    /\ MessageIdle
    /\ AesIdle
    /\ MainIdle

SizeNext == AsBytes /\ UNCHANGED <<wvars, errno, rvars, qvars, cvars, mvars, avars, pvars>>

SizeSpec == SizeInit /\ [][SizeNext]_vars

(***************************************************************************)
(* Specification of main                                                   *)
(***************************************************************************)
\* The process is started: with or without a configured pidfile, with no PID
\* file in the directories or with one of another instance, and with the
\* failure this run meets.
MainInit ==
    /\ p_pc = "getuid"
    /\ \E fault \in StartupFaults,
          pidfile \in {<<>>, <<"a.pid">>},
          unix_socket_dir \in {<<"", "tmp">>, <<"", "tmp", "">>},
          host \in {"localhost", "*"},
          files \in {[n \in PidPaths |-> NoFile]}
                     \cup {[n \in PidPaths |-> IF n = other THEN OtherPidFile
                                               ELSE NoFile] : other \in PidPaths} :
          /\ \E users_ret \in (IF fault = "read_users" THEN {1, 2, 3} ELSE {0}) :
                p_env = [fault |-> fault, users_ret |-> users_ret,
                         main |-> [pidfile |-> pidfile,
                                   unix_socket_dir |-> unix_socket_dir,
                                   host |-> host],
                         files |-> files]
          /\ p_files = files
    /\ p_config = [null |-> TRUE, running |-> FALSE, pidfile |-> <<>>,
                   unix_socket_dir |-> <<>>, host |-> ""]
    /\ p_steps = <<>>
    /\ p_pid_file_created = FALSE
    /\ p_exit = -1
    /\ p_signal = "none"
    /\ errno = "0"
    /\ WriteIdle
    /\ ReadIdle
    /\ QueryIdle
    /\ ConfigurationIdle
    /\ MessageIdle
    /\ AesIdle
    /\ SizeIdle

MainNext ==
    \/ (MainGetuid /\ UNCHANGED <<wvars, errno, rvars, qvars, cvars, mvars, avars, svars>>)
    \/ (MainCreateSharedMemory /\ UNCHANGED <<wvars, errno, rvars, qvars, cvars, mvars, avars, svars>>)
    \/ (MainDirectory /\ UNCHANGED <<wvars, errno, rvars, qvars, cvars, mvars, avars, svars>>)
    \/ (MainReadMain /\ UNCHANGED <<wvars, errno, rvars, qvars, cvars, mvars, avars, svars>>)
    \/ (MainReadUsers /\ UNCHANGED <<wvars, errno, rvars, qvars, cvars, mvars, avars, svars>>)
    \/ (MainStartLogging /\ UNCHANGED <<wvars, errno, rvars, qvars, cvars, mvars, avars, svars>>)
    \/ (MainValidateMain /\ UNCHANGED <<wvars, errno, rvars, qvars, cvars, mvars, avars, svars>>)
    \/ (MainValidateUsers /\ UNCHANGED <<wvars, errno, rvars, qvars, cvars, mvars, avars, svars>>)
    \/ (MainCreatePidfile /\ UNCHANGED <<wvars, errno, rvars, qvars, cvars, mvars, avars, svars>>)
    \/ (MainLoop /\ UNCHANGED <<wvars, errno, rvars, qvars, cvars, mvars, avars, svars>>)
    \/ (MainShutdown /\ UNCHANGED <<wvars, errno, rvars, qvars, cvars, mvars, avars, svars>>)
    \/ (MainError /\ UNCHANGED <<wvars, errno, rvars, qvars, cvars, mvars, avars, svars>>)

MainSpec == MainInit /\ [][MainNext]_vars

(***************************************************************************)
(* Properties of the transport                                             *)
(***************************************************************************)
\* C6: pgvictoria_write_message returns OK only when exactly msg->length bytes
\* were accepted; every syscall starts at the byte after the last accepted one
\* (no byte is submitted twice or skipped); a plain write never requests more
\* than DEFAULT_BUFFER_SIZE bytes.
C6_WriteAccounting ==
    /\ w_status = MESSAGE_STATUS_OK => w_accepted = w_len
    /\ w_inorder
    /\ w_status = "run" => w_offset = w_accepted /\ w_remaining = w_len - w_accepted
    /\ ~w_ssl => w_lastReq <= DEFAULT_BUFFER_SIZE

\* A plain write of more than two chunks that was retried and completed.
C6_Witness ==
    /\ ~w_ssl /\ w_status = MESSAGE_STATUS_OK
    /\ w_len = 2 * DEFAULT_BUFFER_SIZE + 1
    /\ w_retried /\ w_attempts = MaxAttempts

\* C7: a write syscall that fails with anything but EAGAIN (plain) or an
\* SSL_ERROR_WANT_* code (TLS) ends the call with ERROR at once.
C7_OtherFailuresTerminal ==
    w_lastFail \in {"OTHER", "ZERO_RETURN", "SYSCALL", "SSL"}
        => w_status = MESSAGE_STATUS_ERROR

\* C8: a read entered through the public entry points (block set) with a
\* timeout, to which no data arrives, has not run for longer than the timeout.
C8_TimeoutHonoured ==
    (r_block /\ r_timeout > 0
        /\ r_status \in {"run", MESSAGE_STATUS_ZERO, MESSAGE_STATUS_ERROR})
        => now - r_entered <= r_timeout

\* C28: the plain read_message returns OK exactly when a read returned n > 0
\* bytes, with kind the first byte read and length n; ZERO exactly when a read
\* returned 0 and not (errno is EAGAIN and block); ERROR exactly when a read
\* returned a negative value and not (errno is EAGAIN and block); in the
\* excluded cases it reads again.
C28_PlainReadStatus ==
    [][(~r_ssl /\ r_attempts' = r_attempts + 1) =>
          LET e == IF r_last'.ret = 0 THEN errno ELSE r_last'.code
              excluded == e = "EAGAIN" /\ r_block
          IN  /\ r_last'.ret > 0 =>
                    /\ r_status' = MESSAGE_STATUS_OK
                    /\ r_kind' = r_last'.first
                    /\ r_length' = r_last'.ret
              /\ r_last'.ret = 0 =>
                    r_status' = IF excluded THEN "run" ELSE MESSAGE_STATUS_ZERO
              /\ r_last'.ret < 0 =>
                    r_status' = IF excluded THEN "run" ELSE MESSAGE_STATUS_ERROR]_vars

\* Two passes found nothing to read and were retried, the third read a
\* message of MaxSmallLen bytes that starts with 'Z'.
C28_Witness ==
    /\ ~r_ssl /\ r_block /\ r_status = MESSAGE_STATUS_OK
    /\ r_attempts = 3 /\ r_kind = 90 /\ r_length = MaxSmallLen
    /\ r_last = [ret |-> MaxSmallLen, code |-> "none", first |-> 90,
                 cleared |-> FALSE]

\* C29: a plain read_message called with timeout > 0 has SO_RCVTIMEO set to
\* the timeout while it runs and reset to zero on every return path (OK,
\* ZERO, ERROR); with timeout <= 0 the option is never touched.
C29_ReceiveTimeoutCleared ==
    /\ []((~r_ssl /\ r_timeout > 0) =>
             so_rcvtimeo = IF r_status = "run" THEN r_timeout ELSE 0)
    /\ []((~r_ssl /\ r_timeout <= 0 /\ r_status # "idle") => so_rcvtimeo = 0)
    /\ [][(~r_ssl /\ r_timeout <= 0) => so_rcvtimeo' = so_rcvtimeo]_vars

\* A read with the timeout of pgvictoria_read_block_message waited the timeout
\* out once, was retried and then failed: the option is cleared.
C29_Witness ==
    /\ ~r_ssl /\ r_timeout = BLOCK_TIMEOUT /\ r_status = MESSAGE_STATUS_ERROR
    /\ r_attempts = 2 /\ now = BLOCK_TIMEOUT /\ so_rcvtimeo = 0

\* C30: ssl_read_message ends with ERROR on SSL_ERROR_SYSCALL and
\* SSL_ERROR_SSL without another SSL_read; every WANT_* code leads to another
\* SSL_read; SSL_ERROR_ZERO_RETURN gives ZERO only when timeout > 0 and at
\* least timeout seconds have passed since the call began, and a retry
\* otherwise; with timeout <= 0 the call never returns ZERO.
C30_SslReadClassification ==
    /\ [][(r_ssl /\ r_attempts' = r_attempts + 1 /\ r_last'.ret <= 0) =>
             /\ r_last'.code \in {"SYSCALL", "SSL"} =>
                    r_status' = MESSAGE_STATUS_ERROR
             /\ r_last'.code \in SSL_WANT => r_status' = "run"
             /\ r_last'.code = "ZERO_RETURN" =>
                    r_status' = IF r_timeout > 0 /\ now' - r_entered >= r_timeout
                                THEN MESSAGE_STATUS_ZERO ELSE "run"]_vars
    /\ [][(r_ssl /\ r_status # "run") => r_attempts' = r_attempts]_vars
    /\ []((r_ssl /\ r_timeout <= 0) => r_status # MESSAGE_STATUS_ZERO)

\* With a timeout of one second a first SSL_ERROR_ZERO_RETURN was retried and
\* a second one, a second later, ended the call with ZERO.
C30_Witness ==
    /\ r_ssl /\ r_timeout = 1 /\ r_status = MESSAGE_STATUS_ZERO
    /\ r_attempts = 2 /\ now - r_entered = 1
    /\ r_last.code = "ZERO_RETURN"

\* C31: after every SSL_read that returned a non-positive value
\* ssl_read_message has called ERR_clear_error before it returns ZERO or
\* ERROR or reads again.
C31_ErrorStackCleared ==
    (r_ssl /\ r_attempts > 0 /\ r_last.ret <= 0) => r_last.cleared

(***************************************************************************)
(* Properties of pgvictoria_query_execute                                  *)
(***************************************************************************)
\* The frames of the reply that the accumulator of `size` bytes holds in full.
RECURSIVE frames_in(_, _)
frames_in(kinds, size) ==
    IF kinds = <<>> \/ Len(FrameBytes(Head(kinds))) > size THEN <<>>
    ELSE <<Head(kinds)>> \o frames_in(Tail(kinds), size - Len(FrameBytes(Head(kinds))))

AccKinds == frames_in(q_body, q_size)

AccHas(kind) == \E i \in DOMAIN AccKinds : AccKinds[i] = kind

\* The tuples of the DataRow frames among `kinds`, in their order.
RECURSIVE rows_of(_)
rows_of(kinds) ==
    IF kinds = <<>> THEN <<>>
    ELSE (IF Head(kinds) = "Dx" THEN << <<Cell(<<120>>)>> >>
          ELSE IF Head(kinds) = "Dn" THEN << <<NullCell>> >>
          ELSE <<>>) \o rows_of(Tail(kinds))

\* The call has returned after classifying the reply.
Classified == q_pc = "done" /\ q_zFound

\* C1: the request is written exactly once and before any read; a failed write
\* ends the call with an error and no read; the call returns 0 only after the
\* scan has found the 'Z' frame in the accumulated bytes; no read follows that.
C1_WriteThenReadUntilZ ==
    /\ q_writes <= 1
    /\ q_everRead => q_writes = 1 /\ q_wstatus = MESSAGE_STATUS_OK
    /\ q_wstatus = MESSAGE_STATUS_ERROR
          => q_pc = "done" /\ q_ret = 1 /\ ~q_everRead
    /\ (q_pc = "done" /\ q_ret = 0) => q_zFound
    /\ q_zFound => ~q_closed /\ q_size > Len(WireBytes(q_body))
    /\ ~q_readAfterZ

\* The call returned 0 on a reply read in several pieces, the last of which
\* stopped inside the ReadyForQuery frame.
C1_Witness ==
    /\ q_pc = "done" /\ q_ret = 0 /\ q_writes = 1 /\ q_zFound
    /\ q_size < Len(q_wire) /\ Len(q_body) = MaxBodyFrames

\* C2: the reply is classified by precedence: an 'E' frame anywhere makes the
\* call fail; otherwise a 'T' frame gives a row response that is not
\* command-complete; otherwise a 'C' frame gives one column and one row holding
\* the command tag, command-complete; otherwise the call fails.
C2_Precedence ==
    Classified =>
        IF AccHas("E") THEN q_ret = 1
        ELSE IF AccHas("T")
        THEN q_ret = 0 /\ ~q_response.is_command_complete
        ELSE IF AccHas("C")
        THEN /\ q_ret = 0
             /\ q_response.is_command_complete
             /\ q_response.number_of_columns = 1
             /\ q_response.tuples = << <<Cell(<<83, 69, 84>>)>> >>
        ELSE q_ret = 1

\* C3: a response returned for a reply with a RowDescription holds one tuple
\* per DataRow frame of the accumulator, in wire order.
C3_TuplesInWireOrder ==
    (Classified /\ q_ret = 0 /\ AccHas("T"))
        => q_response.tuples = rows_of(AccKinds)

\* Two DataRow frames, the value before the NULL, came back as two tuples.
C3_Witness ==
    /\ Classified /\ q_ret = 0 /\ AccHas("T")
    /\ rows_of(AccKinds) = << <<Cell(<<120>>)>>, <<NullCell>> >>
    /\ q_response.tuples = rows_of(AccKinds)

\* C4: a call that returns non-zero leaves *response NULL, a call that returns
\* 0 leaves it pointing to the response built.
C4_ResponseOnlyOnSuccess ==
    q_pc = "done" =>
        /\ q_ret # 0 => q_response.ptr = "NULL"
        /\ q_ret = 0 => q_response.ptr = "r"

\* The call failed on an ErrorResponse after the response had been allocated.
C4_Witness ==
    /\ Classified /\ AccHas("E") /\ q_ret = 1 /\ q_response.ptr = "NULL"

\* C5: after an append, a read that is not OK (ZERO or ERROR) ends the call
\* with an error.
C5_NonOkReadFatal ==
    q_nonOkAfterData => q_pc = "done" /\ q_ret = 1

RestartFieldDiffers(c, n) ==
    \/ c.host # n.host
    \/ c.log_type # n.log_type
    \/ (n.pidfile # "" /\ c.pidfile # n.pidfile)
    \/ c.libev # n.libev
    \/ c.hugepage # n.hugepage
    \/ c.update_process_title # n.update_process_title
    \/ c.unix_socket_dir # n.unix_socket_dir
    \/ \E i \in 0..(NUMBER_OF_SERVERS - 1) :
          Slot(c.servers, ZeroServer, i) # Slot(n.servers, ZeroServer, i)
    \/ c.number_of_servers # n.number_of_servers

\* C10: transfer_configuration answers false when the snapshot differs from the
\* live configuration in log_level only, and true whenever it differs in a
\* field that needs a restart.
C10_RestartDecision ==
    rl_ret = 0 =>
        /\ RestartFieldDiffers(rl_before, rl_snapshot) => rl_restart
        /\ (/\ rl_before.log_level # rl_snapshot.log_level
            /\ \A k \in DOMAIN rl_before \ {"log_level"} :
                  rl_before[k] = rl_snapshot[k])
              => ~rl_restart

\* The fields transfer_configuration copies without asking for a restart.
HotFields ==
    {"log_level", "authentication_timeout", "backlog", "users", "number_of_users"}

\* C11: after a reload that returned 0 the live log_level,
\* authentication_timeout, backlog, users[] and number_of_users are those of
\* the snapshot, whether or not a restart is reported; a reload whose snapshot
\* differs from the live configuration in these fields only reports no restart.
C11_HotFieldsCopied ==
    rl_ret = 0 =>
        /\ \A k \in HotFields : config[k] = rl_snapshot[k]
        /\ (\A k \in DOMAIN rl_before \ HotFields : rl_before[k] = rl_snapshot[k])
              => ~rl_restart

\* A reload that reported a restart took over new users and a new backlog.
C11_Witness ==
    /\ rl_ret = 0 /\ rl_restart
    /\ rl_before.users # rl_snapshot.users
    /\ config.users = rl_snapshot.users
    /\ config.number_of_users = rl_snapshot.number_of_users

\* The fields whose change makes the logger restart.
LogFields ==
    {"log_path", "log_rotation_size", "log_rotation_age", "log_mode", "log_line_prefix"}

\* C12: when log_path, log_rotation_size, log_rotation_age, log_mode or
\* log_line_prefix differs between the live configuration and the snapshot,
\* transfer_configuration stops the logger, copies the five fields and starts
\* the logger, in that order, and the five live fields then equal the
\* snapshot's; when none differs the logger is left alone.
C12_LogRestart ==
    rl_ret = 0 =>
        IF \E k \in LogFields : rl_before[k] # rl_snapshot[k]
        THEN /\ rl_logger = <<"stop", "copy", "start">>
             /\ \A k \in LogFields : config[k] = rl_snapshot[k]
        ELSE rl_logger = <<>>

\* The fields whose change takes effect only when the process restarts.
RestartFields ==
    {"host", "log_type", "pidfile", "libev", "hugepage", "update_process_title",
     "unix_socket_dir", "servers", "number_of_servers"}

\* C13: a reload leaves the live host, log_type, pidfile, libev, hugepage,
\* update_process_title, unix_socket_dir, servers[] and number_of_servers as
\* they were before it.
C13_RestartFieldsKept ==
    rl_failed # "idle" => \A k \in RestartFields : config[k] = rl_before[k]

\* transfer_configuration ran on a snapshot with another host and other
\* servers; the live ones are still those of before.
C13_Witness ==
    /\ rl_transferred /\ rl_ret = 0 /\ rl_restart
    /\ rl_snapshot.host # rl_before.host
    /\ rl_snapshot.servers # rl_before.servers
    /\ config.host = rl_before.host /\ config.servers = rl_before.servers

\* The status the users file `file` calls for.
UsersStatus(file) ==
    IF ~file.exists THEN 1
    ELSE IF ~file.master_key THEN 2
    ELSE IF file.malformed THEN 1
    ELSE IF Len(file.users) > NUMBER_OF_USERS THEN 3
    ELSE 0

\* C14: pgvictoria_read_users_configuration returns 0 on success with
\* number_of_users the number of lines, 1 when the file cannot be opened or a
\* line cannot be read, 2 without the master key and 3 when the file holds more
\* than NUMBER_OF_USERS entries.
C14_UsersStatus ==
    [][(Reload /\ rl_failed' \notin {"create_shared_memory", "read_main"})
          => /\ rl_users_ret' = UsersStatus(f_users)
             /\ rl_users_ret' = 0
                   => rl_snapshot'.number_of_users = Len(f_users.users)]_vars

\* What a configuration must satisfy to pass both validations.
ValidConfiguration(c) ==
    /\ c.host # ""
    /\ c.unix_socket_dir \in Directories
    /\ c.number_of_servers >= 1
    /\ \A i \in 0..(c.number_of_servers - 1) :
          LET srv == Slot(c.servers, ZeroServer, i)
          IN  /\ srv.name \notin {"pgvictoria", "all"}
              /\ srv.host # ""
              /\ srv.port # 0
              /\ srv.username # ""
              /\ \E j \in 0..(c.number_of_users - 1) :
                    Slot(c.users, ZeroUser, j).username = srv.username

\* C15: a snapshot for which pgvictoria_validate_main_configuration and
\* pgvictoria_validate_users_configuration both return 0 has a host, a
\* unix_socket_dir that is a directory, at least one server, no server named
\* pgvictoria or all, and for every server a host, a port, a username and a
\* loaded user of that name; a snapshot that breaks one of these makes one of
\* the two return 1.
C15_ValidationSound ==
    rl_failed \in {"validate_main", "validate_users", "none"}
        => (rl_failed = "none" <=> ValidConfiguration(rl_snapshot))

\* A snapshot that passed the validation of the main part was turned down for
\* a server whose user is not among the loaded ones.
C15_Witness ==
    /\ rl_failed = "validate_users"
    /\ rl_snapshot.number_of_users > 0
    /\ ~ValidConfiguration(rl_snapshot)

\* C35: over any sequence of reloads that return 0, a reload whose snapshot
\* differs from the live configuration in a field that needs a restart
\* reports restart = true and does not absorb the difference, so a further
\* reload of the same files reports it again; a reload whose snapshot is the
\* live configuration reports restart = false and changes nothing.
C35_RestartNeverAbsorbed ==
    [][(Reload /\ rl_ret' = 0) =>
          /\ RestartFieldDiffers(config, rl_snapshot') =>
                 /\ rl_restart'
                 /\ RestartFieldDiffers(config', rl_snapshot')
          /\ (rl_ret = 0 /\ rl_snapshot' = rl_snapshot
                 /\ RestartFieldDiffers(rl_before, rl_snapshot)) => rl_restart'
          /\ rl_snapshot' = config => ~rl_restart' /\ config' = config]_vars

\* C37: when pgvictoria_read_main_configuration has parsed a file whose
\* [pgvictoria] section holds a `user` or a `port` key, every server entry has
\* the name, port and username its own section gives, and no slot of servers[]
\* outside 0..number_of_servers-1 was stored to.
C37_StrayKeysIgnored ==
    (rl_failed \notin {"idle", "create_shared_memory", "read_main"}
        /\ (f_main.stray.user # "" \/ f_main.stray.port # 0)) =>
        /\ \A i \in 1..Len(rl_snapshot.servers) :
              i <= NUMBER_OF_SERVERS =>
                 /\ rl_snapshot.servers[i].name = f_main.conf.servers[i].name
                 /\ rl_snapshot.servers[i].port = f_main.conf.servers[i].port
                 /\ rl_snapshot.servers[i].username
                       = f_main.conf.servers[i].username
        /\ Len(f_main.conf.servers) <= NUMBER_OF_SERVERS =>
              rl_slots \subseteq 0..(rl_snapshot.number_of_servers - 1)

\* C26: after pgvictoria_read_main_configuration has returned, whatever the
\* number of server sections, number_of_servers <= NUMBER_OF_SERVERS and no
\* slot of servers[] outside 0..NUMBER_OF_SERVERS-1 was written.
C26_ServersWithinArray ==
    rl_failed \notin {"idle", "create_shared_memory", "read_main"} =>
        /\ rl_snapshot.number_of_servers <= NUMBER_OF_SERVERS
        /\ Len(rl_snapshot.servers) <= NUMBER_OF_SERVERS

\* C27: pgvictoria_read_users_configuration, whatever the number of entries
\* (more than NUMBER_OF_USERS included), writes no slot of users[] outside
\* 0..NUMBER_OF_USERS-1: it runs to its return and the slots written are the
\* first NUMBER_OF_USERS at most.
C27_UsersWithinArray ==
    rl_failed \notin {"idle", "create_shared_memory", "read_main"} =>
        /\ rl_failed # "crash"
        /\ Len(rl_snapshot.users) <= NUMBER_OF_USERS

(***************************************************************************)
(* Properties of the message constructors                                  *)
(***************************************************************************)
\* The parameters of a StartupMessage that follow the protocol number:
\* user, database, application_name=pgvictoria, replication=1 if asked for,
\* each key and value with its NUL, and the NUL that ends the list.
StartupParameters(username, database, replication) ==
    <<117, 115, 101, 114>> \o <<0>> \o username \o <<0>>
    \o <<100, 97, 116, 97, 98, 97, 115, 101>> \o <<0>> \o database \o <<0>>
    \o <<97, 112, 112, 108, 105, 99, 97, 116, 105, 111, 110, 95, 110, 97, 109, 101>> \o <<0>> \o <<112, 103, 118, 105, 99, 116, 111, 114, 105, 97>> \o <<0>>
    \o (IF replication THEN <<114, 101, 112, 108, 105, 99, 97, 116, 105, 111, 110>> \o <<0>> \o <<49, 0>> ELSE <<>>)
    \o <<0>>

\* Two stores of a constructor share a byte.
StoresOverlap(stores) ==
    \E i, j \in DOMAIN stores :
        /\ i < j
        /\ stores[i].offset < stores[j].offset + stores[j].length
        /\ stores[j].offset < stores[i].offset + stores[i].length

\* C16: pgvictoria_create_startup_message without replication returns an
\* untagged frame whose first int32 is msg->length and whose msg->length bytes
\* are that length, protocol 196608, user, database, application_name=pgvictoria
\* and the final NUL.
C16_StartupFrame ==
    (m_pc = "done" /\ m_fn = "startup" /\ ~m_args.flag) =>
        /\ m_msg.kind = 0
        /\ SubSeq(m_msg.data, 1, 4) = I32(m_msg.length)
        /\ m_msg.data = I32(m_msg.length) \o I32(196608)
                        \o StartupParameters(m_args.s1, m_args.s2, FALSE)

\* C17: with replication the frame holds application_name=pgvictoria intact,
\* then replication=1, then the final NUL, and no two stores of keys and values
\* share a byte.
C17_StartupReplication ==
    (m_pc = "done" /\ m_fn = "startup" /\ m_args.flag) =>
        /\ m_msg.data = I32(m_msg.length) \o I32(196608)
                        \o StartupParameters(m_args.s1, m_args.s2, TRUE)
        /\ ~StoresOverlap(m_msg.stores)

\* C18: every byte a constructor stores into data lies below msg->length.
C18_StoresWithinLength ==
    (m_pc = "done" /\ m_fn # "create_D_tuple") =>
        \A i \in DOMAIN m_msg.stores :
            m_msg.stores[i].offset + m_msg.stores[i].length <= m_msg.length

\* C19: create_D_tuple gives a null cell for a column of length -1, a cell
\* other than the null cell for a column of length 0, and the n bytes for a
\* column of length n > 0.
C19_NullAndEmptyCells ==
    (m_pc = "done" /\ m_fn = "create_D_tuple") =>
        /\ Len(m_tuple) = Len(m_args.cells)
        /\ \A i \in DOMAIN m_args.cells :
              IF m_args.cells[i].null THEN m_tuple[i] = NullCell
              ELSE IF m_args.cells[i].bytes = <<>> THEN m_tuple[i] # NullCell
              ELSE m_tuple[i] = Cell(m_args.cells[i].bytes)

\* The tags at the frame starts of a buffer of whole frames.
RECURSIVE frame_tags(_, _)
frame_tags(data, offset) ==
    IF offset >= Len(data) THEN {}
    ELSE {data[offset + 1]}
         \cup frame_tags(data, offset + 1
                   + pgvictoria_read_int32(Memory(data, Len(data), I32(0)), offset + 1))

\* C34: the frame of pgvictoria_create_auth_scram256_response is 'p', the
\* frame length, "SCRAM-SHA-256" and its NUL, a 4-byte big-endian length whose
\* value is the number of bytes that follow it in the frame, and the
\* client-first text, which ends with the nonce: the nonce is the end of the
\* frame, no NUL follows it.
C34_ScramResponseLayout ==
    (m_pc = "done" /\ m_fn = "auth_scram256_response") =>
        LET d == m_msg.data
            n == Len(m_args.s1)
        IN  /\ d[1] = 112
            /\ SubSeq(d, 2, 5) = I32(Len(d) - 1)
            /\ SubSeq(d, 6, 19) = <<83, 67, 82, 65, 77, 45, 83, 72, 65, 45, 50, 53, 54, 0>>
            /\ SubSeq(d, 20, 23) = I32(Len(d) - 23)
            /\ SubSeq(d, Len(d) - n + 1, Len(d)) = m_args.s1
            /\ Len(d) = 23 + 8 + n

\* C23: on a buffer that is a concatenation of whole frames
\* pgvictoria_has_message(tag) is true exactly when a frame starts with the
\* tag (a byte of a payload does not count), and the scan reads no byte at an
\* index >= len, whatever lies behind the buffer.
C23_HasMessageOnFrames ==
    (m_fn = "pgvictoria_has_message" /\ m_pc = "done") =>
        /\ m_found = IF m_args.n \in frame_tags(m_args.s1, 0) THEN "true" ELSE "false"
        /\ \A garbage \in GarbageWords :
              has_message_reads(m_args.n,
                  Memory(m_args.s1, Len(m_args.s1), garbage), 0, Len(m_args.s1))
                  < Len(m_args.s1)

\* The tag 'E' was looked for in RowDescription("E"), DataRow, ReadyForQuery:
\* the 'E' of the column name is not a frame and the scan ran to the end.
C23_Witness ==
    /\ m_fn = "pgvictoria_has_message" /\ m_pc = "done"
    /\ m_args.n = 69
    /\ m_args.s1 = FrameBytes("T") \o FrameBytes("Dx") \o FrameBytes("Z")
    /\ m_found = "false"

\* C32: when the read loop of pgvictoria_query_execute has stopped on a 'Z'
\* the accumulator holds every frame of the reply up to and including the
\* ReadyForQuery frame in full, however the reply was split over the reads,
\* and no byte of the reply is left unread.
C32_AccumulatorComplete ==
    q_zFound =>
        /\ q_size = Len(q_wire)
        /\ SubSeq(q_wire, 1, q_size) = WireBytes(q_body) \o FrameBytes("Z")

(***************************************************************************)
(* Properties of the file encryption                                       *)
(***************************************************************************)
\* C20: when pgvictoria_encrypt_file(A, B) or pgvictoria_decrypt_file(A, B)
\* has returned 0 the source A does not exist, and A is removed only by the
\* step that follows the return of encrypt_file, never before or while the
\* cipher runs over A.
C20_SourceDeletedAfterCipher ==
    /\ [](a_pc = "done" /\ a_ret = 0 => ~f_files[a_args.from].exists)
    /\ [][(a_args.from \in DOMAIN f_files
              /\ f_files[a_args.from].exists /\ ~f_files'[a_args.from].exists)
             => a_pc = "return" /\ a_rc \in {0, 1}]_vars

\* "a" of three bytes was encrypted to "a.aes" in two passes and deleted.
C20_Witness ==
    /\ a_pc = "done" /\ a_ret = 0 /\ a_rc = 0
    /\ a_args = [from |-> <<"a">>, to |-> <<"a", "aes">>, enc |-> 1]
    /\ a_pos = 3
    /\ f_files[<<"a", "aes">>] = [exists |-> TRUE, data |-> <<102, 103, 102, 117>>]
    /\ ~f_files[<<"a">>].exists

\* C21: on every failing path of pgvictoria_encrypt_buffer and
\* pgvictoria_decrypt_buffer the call returns non-zero, the caller's output
\* pointer is left NULL and the cipher context, if created, is released.
C21_BufferFailureLeavesNull ==
    \A r \in {a_buf.enc, a_buf.dec} :
        /\ r.ret \in {-1, 0, 1}
        /\ r.ret = 1 => r.res_buffer.null /\ r.ctx \in {"none", "freed"}

NamedCipher(mode) ==
    [chain |-> IF mode \in {ENCRYPTION_AES_256_CTR, ENCRYPTION_AES_192_CTR,
                            ENCRYPTION_AES_128_CTR} THEN "ctr" ELSE "cbc",
     bits |-> IF mode \in {ENCRYPTION_AES_256_CBC, ENCRYPTION_AES_256_CTR}
              THEN 256
              ELSE IF mode \in {ENCRYPTION_AES_192_CBC, ENCRYPTION_AES_192_CTR}
              THEN 192 ELSE 128]

\* C33: for each of the six modes pgvictoria_encrypt_buffer and
\* pgvictoria_decrypt_buffer run the cipher the mode names (a CTR mode adds no
\* padding block to the ciphertext), and the cipher that derives key and IV
\* from the master key is the cipher that encrypts and decrypts.
C33_BufferCipherIsNamedCipher ==
    (a_buf.enc.ret = 0
        /\ a_buf.mode \in ENCRYPTION_AES_256_CBC..ENCRYPTION_AES_128_CTR) =>
        /\ get_cipher_buffer(a_buf.mode) = NamedCipher(a_buf.mode)
        /\ get_cipher(a_buf.mode) = get_cipher_buffer(a_buf.mode)
        /\ a_buf.enc.res_size =
              Len(a_buf.origin)
                 + (IF NamedCipher(a_buf.mode).chain = "cbc" THEN 1 ELSE 0)

\* C36: when encrypt_file has failed, pgvictoria_encrypt_file and
\* pgvictoria_decrypt_file return non-zero and the source file still exists;
\* the source is deleted only when encrypt_file succeeded.
C36_FailedCipherKeepsSource ==
    /\ [](a_pc = "done" /\ a_rc = 1 =>
             a_ret # 0 /\ f_files[a_args.from].exists)
    /\ [][(a_args.from \in DOMAIN f_files
              /\ f_files[a_args.from].exists /\ ~f_files'[a_args.from].exists)
             => a_rc = 0]_vars

(***************************************************************************)
(* Properties of main                                                      *)
(***************************************************************************)
\* C24: when the PID file exists as the process starts, the process exits
\* with code 1 and the file is as it was; and no PID file that this process
\* created is left behind once the process has exited.
C24_PidFileLifecycle ==
    p_pc = "exited" =>
        /\ \A n \in PidPaths :
              p_env.files[n].exists =>
                 /\ p_files[n] = p_env.files[n]
                 /\ (n = (IF p_env.main.pidfile = <<>>
                          THEN default_pidfile(p_env.main.unix_socket_dir,
                                               p_env.main.host)
                          ELSE p_env.main.pidfile)) => p_exit = 1
        /\ \A n \in PidPaths : p_files[n].owner # "self"

\* C25: the steps run in the order create shared memory, initialise defaults,
\* read main, read users, start logging, validate main, validate users, create
\* PID file; when a step before the creation of the PID file fails the process
\* exits with code 1 and has created no PID file; exit code 0 comes only after
\* all the steps, with none of them failed.
C25_StartupOrder ==
    /\ \E k \in 0..Len(StartupOrder) : p_steps = SubSeq(StartupOrder, 1, k)
    /\ (p_pc = "exited"
        /\ p_env.fault \in {"create_shared_memory", "directory", "read_main",
                            "read_users", "start_logging", "validate_main",
                            "validate_users"})
          => /\ p_exit = 1
             /\ \A n \in PidPaths : p_files[n] = p_env.files[n]
    /\ p_exit = 0 => p_steps = StartupOrder /\ p_env.fault = "none"

(***************************************************************************)
(* Properties of the query response                                        *)
(***************************************************************************)
\* C38: pgvictoria_query_response_get_data returns NULL for a NULL response,
\* for every column outside 0..number_of_columns-1 and for a response without
\* tuples, and never reads outside the column array of the first tuple.
C38_GetDataBounds ==
    (m_pc = "done" /\ m_fn = "pgvictoria_query_execute") =>
        /\ ~m_data.outside
        /\ (\/ m_response.response.ptr = "NULL"
            \/ m_data.column \notin 0..(m_response.response.number_of_columns - 1)
            \/ m_response.response.tuples = <<>>)
           => m_data.out = "NULL"

\* C39: the response of a successful call has 0 <= number_of_columns <=
\* MAX_NUMBER_OF_COLUMNS and names only at the indexes
\* 0..MAX_NUMBER_OF_COLUMNS-1, whatever count the RowDescription announces.
C39_ColumnsBounded ==
    (m_pc = "built" /\ m_response.pc = "done" /\ m_response.ret = 0) =>
        /\ m_response.response.number_of_columns \in 0..MAX_NUMBER_OF_COLUMNS
        /\ DOMAIN m_response.response.names \subseteq 1..MAX_NUMBER_OF_COLUMNS

(***************************************************************************)
(* Properties of as_bytes                                                  *)
(***************************************************************************)
\* The strings of the form the configuration documents: digits, then nothing,
\* B, K, M or G, and B once more after K, M or G (in either case).
SizeForm ==
    /\ s_in.digits # <<>>
    /\ s_in.suffix \in {<<>>, <<"B">>, <<"K">>, <<"M">>, <<"G">>,
                        <<"K", "B">>, <<"M", "B">>, <<"G", "B">>,
                        <<"b">>, <<"k">>, <<"m">>, <<"g">>, <<"k", "b">>}

\* number x multiplier of such a string, as limbs.
SizeExact ==
    multiply(strtol(s_in.digits).val,
             IF s_in.suffix = <<>> THEN 1
             ELSE CASE s_in.suffix[1] \in {"K", "k"} -> 1024
                    [] s_in.suffix[1] \in {"M", "m"} -> 1024 * 1024
                    [] s_in.suffix[1] \in {"G", "g"} -> 1024 * 1024 * 1024
                    [] OTHER -> 1)

\* C40: for every string of that form that as_bytes accepts, the int stored
\* is number x multiplier exactly and is not negative; the multiplication
\* does not overflow the int.
C40_BytesExact ==
    (s_pc = "done" /\ SizeForm /\ s_out.ret # 1) =>
        /\ s_out.ret = 0
        /\ ~s_out.overflow
        /\ s_out.bytes >= 0
        /\ Limbs(s_out.bytes) = SizeExact

=============================================================================
